---- MODULE Spec2Model ----
(***************************************************************************)
(* DelugeFlow: the Deluge Web-UI JSON-RPC client core.                     *)
(*                                                                         *)
(* The model is a single-threaded interpreter of the async call chains of  *)
(* DelugeConnection / DelugeAuth / DelugeRequest / DelugeDaemon /          *)
(* DelugePlugins / DelugeTorrent.  `stack` is the chain of suspended       *)
(* async functions, `ret` the value or exception being delivered to the    *)
(* top frame, `inflight` the HTTP response that fetch() has resolved with  *)
(* and that request() has not yet looked at.  The server is the            *)
(* environment: it answers every HTTP call with any response its           *)
(* behaviour `srv` allows.                                                 *)
(***************************************************************************)
EXTENDS Integers, Sequences, FiniteSets, TLC

(***************************************************************************)
(* Bounds of the exploration.                                              *)
(***************************************************************************)
\* HTTP calls one top-level operation may issue before the model stops
\* following it
MaxCalls == 7
\* expired-session answers an unconstrained server gives during one operation
MaxStale == 1

(***************************************************************************)
(* Program constants.                                                      *)
(***************************************************************************)
\* DelugeRequest.maxRetries
maxRetries == 2

\* DELUGE_METHODS
AUTH_LOGIN == "auth.login"
AUTH_CHECK_SESSION == "auth.check_session"
AUTH_DELETE_SESSION == "auth.delete_session"
WEB_GET_HOSTS == "web.get_hosts"
WEB_GET_HOST_STATUS == "web.get_host_status"
WEB_START_DAEMON == "web.start_daemon"
WEB_CONNECT == "web.connect"
WEB_UPDATE_UI == "web.update_ui"
WEB_GET_PLUGINS == "web.get_plugins"
CORE_GET_CONFIG == "core.get_config"
CORE_ADD_TORRENT_URL == "core.add_torrent_url"
CORE_ADD_TORRENT_MAGNET == "core.add_torrent_magnet"
CORE_ADD_TORRENT_FILE == "core.add_torrent_file"
LABEL_GET_LABELS == "label.get_labels"
LABEL_GET_CONFIG == "label.get_config"
LABEL_SET_TORRENT == "label.set_torrent"
LABELPLUS_GET_LABELS == "labelplus.get_labels"

AuthMethods == {AUTH_LOGIN, AUTH_CHECK_SESSION}

\* method.includes('torrent')
MethodIncludesTorrent(m) ==
    m \in {CORE_ADD_TORRENT_URL, CORE_ADD_TORRENT_MAGNET, CORE_ADD_TORRENT_FILE,
           LABEL_SET_TORRENT}

(***************************************************************************)
(* Strings.  A message is a sequence of text fragments; concatenation is   *)
(* \o and String.includes is a search of the fragments.                    *)
(***************************************************************************)
NoStr == "<null>"

\* the fragments that have a marker the code searches for as a proper
\* substring
SubstringPairs ==
    { <<"already in session", "already">>,
      <<"Torrent already added to Deluge", "already">>,
      <<"Unknown method core.add_torrent_magnet", "Unknown method">>,
      <<"Unknown method core.add_torrent_magnet", "add_torrent_magnet">>,
      <<"Unknown method core.add_torrent_magnet", "unknown method">> }

\* String.toLowerCase of a fragment
ToLowerCase(t) ==
    CASE t = "Not authenticated" -> "not authenticated"
      [] t = "Invalid session" -> "invalid session"
      [] t = "No session" -> "no session"
      [] t = "Authentication required" -> "authentication required"
      [] t = "Login required" -> "login required"
      [] t = "NOT AUTHENTICATED" -> "not authenticated"
      [] t = "Unknown method" -> "unknown method"
      [] t = "Torrent" -> "torrent"
      [] t = "403 Forbidden" -> "403 forbidden"
      [] OTHER -> t

LowerMsg(msg) == [i \in DOMAIN msg |-> ToLowerCase(msg[i])]

\* String.includes
Includes(msg, marker) ==
    \E i \in DOMAIN msg : msg[i] = marker \/ <<msg[i], marker>> \in SubstringPairs

\* isAuthErrorMessage
authErrorPatterns ==
    {"Not authenticated", "Invalid session", "No session",
     "Authentication required", "Login required"}

isAuthErrorMessage(msg) ==
    \E pattern \in authErrorPatterns : Includes(LowerMsg(msg), ToLowerCase(pattern))

(***************************************************************************)
(* Values, payloads, errors.                                               *)
(***************************************************************************)
\* a JSON value: t is its type, s its content
Val(t, s) == [t |-> t, s |-> s]
VNull == Val("null", <<>>)
VTrue == Val("true", <<>>)
VFalse == Val("false", <<>>)
VStr(x) == Val("str", <<x>>)
VList(xs) == Val("list", xs)

\* JavaScript truthiness
Truthy(v) ==
    CASE v.t \in {"null", "false"} -> FALSE
      [] v.t = "str" -> v.s # <<"">>
      [] OTHER -> TRUE

\* DelugeResponse: {result?, error?: {message}, status?}
Payload(kind, res, msg) == [kind |-> kind, res |-> res, msg |-> msg]
ResultPayload(v) == Payload("result", v, <<>>)
ErrorPayload(msg) == Payload("error", VNull, msg)
NullPayload == ResultPayload(VNull)

\* DelugeError and its subclasses: name, message, code, statusCode, cause
Err(type, msg, code, status, cause) ==
    [type |-> type, msg |-> msg, code |-> code, status |-> status, cause |-> cause]
NetworkError(msg, status) == Err("NetworkError", msg, "NETWORK_ERROR", status, <<>>)
AuthenticationError(msg) == Err("AuthenticationError", msg, "AUTH_ERROR", 0, <<>>)
ServerConfigError(msg) == Err("ServerConfigError", msg, "CONFIG_ERROR", 0, <<>>)
ConnectionError(msg, cause) == Err("ConnectionError", msg, "CONNECTION_ERROR", 0, cause)
DaemonError(msg, cause) == Err("DaemonError", msg, "DAEMON_ERROR", 0, cause)
TorrentError(msg) == Err("TorrentError", msg, "TORRENT_ERROR", 0, <<>>)
PluginError(msg, cause) == Err("PluginError", msg, "PLUGIN_ERROR", 0, cause)
PlainError(msg) == Err("Error", msg, "", 0, <<>>)

(***************************************************************************)
(* Configuration read from storage.                                        *)
(***************************************************************************)
\* StorageManager.getConnections: index 0 and 1 are configured, the second
\* without a password
Connections ==
    << [url |-> <<"http://a:8112">>, pass |-> "secret"],
       [url |-> <<"http://b:8112", "/">>, pass |-> ""] >>

\* StorageManager.getPrimaryServerIndex
PrimaryServerIndex == 1

\* this.connections[i]: undefined outside the array
HasConnection(i) == i + 1 \in DOMAIN Connections
ConnectionAt(i) == Connections[i + 1]

\* serverIndex arguments; -1 stands for undefined
Undefined == -1
ServerIndexArgs == {Undefined, 0, 1, 2}

(***************************************************************************)
(* HTTP responses and the server.                                          *)
(***************************************************************************)
\* a fetch() outcome: net is "ok" (a Response), "fail" (fetch rejected) or
\* "abort" (the timeout aborted it); "none" when nothing is in flight
Response(net, status, payload, cookie, csrf) ==
    [net |-> net, status |-> status, payload |-> payload,
     cookie |-> cookie, csrf |-> csrf]
NoResponse == Response("none", 0, NullPayload, NoStr, NoStr)

\* error messages a server may send
AlreadyMsg == <<"Torrent", "already in session", "(abc123)">>
AuthMsg == <<"Error:", "not authenticated">>
AlreadyAuthMsg == <<"already in session", "Not authenticated">>
InternalMsg == <<"Internal failure">>
\* request() hands its caller no error payload but one with 'already in
\* session': this one also carries the arity marker addUrl looks for
AlreadyArityMsg == <<"already in session", "takes exactly 3 arguments">>

AddMethods == {CORE_ADD_TORRENT_URL, CORE_ADD_TORRENT_MAGNET, CORE_ADD_TORRENT_FILE}

\* errors that are not auth-classified, by method
ErrorMessages(m) ==
    IF m \in AddMethods
    THEN {InternalMsg, AlreadyMsg, AlreadyAuthMsg, <<"Unknown method">>,
          <<"takes exactly 3 arguments">>, <<"403 Forbidden">>}
         \cup (IF m = CORE_ADD_TORRENT_URL THEN {AlreadyArityMsg} ELSE {})
    ELSE {InternalMsg}

Statuses == {"Connected", "Online", "Offline", "Unknown"}
HostLists == { <<>>, <<"h1", "h2">> }
LabelLists == { <<>>, <<"tv">>, <<"tv", "film">>, <<"tv", "tv">> }
TorrentHash == "abc123"

\* the results a well-formed or malformed server may put in `result`
Results(m, arg) ==
    CASE m \in AuthMethods -> {VTrue, VFalse}
      [] m = WEB_GET_HOSTS -> {VList(h) : h \in HostLists} \cup {VNull}
      [] m = WEB_GET_HOST_STATUS ->
            {VList(<<arg, st>>) : st \in Statuses} \cup {VNull}
      [] m = CORE_GET_CONFIG -> {Val("obj", <<>>), VNull}
      [] m = WEB_GET_PLUGINS ->
            {VList(<<>>), VList(<<"Label">>),
             Val("obj", <<"LabelPlus", "true", "AutoAdd", "false">>), VNull}
      [] m = LABEL_GET_LABELS -> {VList(l) : l \in LabelLists} \cup {VNull}
      [] m = LABEL_GET_CONFIG ->
            {Val("labels", l) : l \in LabelLists} \cup {Val("obj", <<>>)}
      [] m = LABELPLUS_GET_LABELS ->
            {Val("names", l) : l \in LabelLists} \cup {VNull}
      [] m \in AddMethods -> {VStr(TorrentHash), VStr(""), VNull}
      [] m = WEB_UPDATE_UI -> {Val("obj", <<>>)}
      [] OTHER -> {VNull, VTrue}

\* Set-Cookie / X-CSRF-Token headers of a response
NoHeaders == [cookie |-> NoStr, csrf |-> NoStr]
SessionCookie1 == "_session_id=s1; Path=/"
SessionCookie2 == "_session_id=s2; Path=/"
\* a cookie of a proxy in front of the web UI
ProxyCookie == "route=r1; Path=/"
HeaderChoices ==
    { [cookie |-> NoStr, csrf |-> NoStr],
      [cookie |-> SessionCookie1, csrf |-> "t1"] }

Ok200(payload, h) == Response("ok", 200, payload, h.cookie, h.csrf)
HttpError(st, h) == Response("ok", st, NullPayload, h.cookie, h.csrf)

\* the responses request() takes for an expired session: an auth-classified
\* error, or HTTP 403 to a method that is not a torrent method
StaleResponses(m) ==
    {Ok200(ErrorPayload(AuthMsg), h) : h \in HeaderChoices}
    \cup (IF MethodIncludesTorrent(m) THEN {}
          ELSE {HttpError(403, h) : h \in HeaderChoices})

\* failures beyond a server error and a failed fetch: the payload-level 403
\* marker, HTTP 500 and HTTP 403, a timeout
OtherFailures(m) ==
    CASE m = CORE_GET_CONFIG ->
            {Ok200(Payload("status403", VNull, <<>>), NoHeaders), HttpError(500, NoHeaders)}
      [] m \in AddMethods ->
            {Ok200(Payload("status403", VNull, <<>>), NoHeaders), HttpError(403, NoHeaders)}
      [] m = WEB_UPDATE_UI ->
            {Ok200(Payload("status403", VNull, <<>>), NoHeaders),
             Response("abort", 0, NullPayload, NoStr, NoStr)}
            \cup {HttpError(500, h) : h \in HeaderChoices}
      [] OTHER -> {}

\* every other response
PlainResponses(m, arg) ==
    {Ok200(ResultPayload(r), h) : r \in Results(m, arg), h \in HeaderChoices}
    \cup {Ok200(ErrorPayload(msg), NoHeaders) : msg \in ErrorMessages(m)}
    \cup {Response("fail", 0, NullPayload, NoStr, NoStr)}
    \cup OtherFailures(m)

NormalResponses(m, arg) ==
    {Ok200(ResultPayload(r), h) : r \in Results(m, arg), h \in HeaderChoices}

\* The server's behaviour during one operation:
\*   free      any response to any call, the expired-session ones at most
\*             MaxStale times
\*   plain     any response but the expired-session ones
\*   authErr   an auth-classified error to every non-auth method, normal
\*             answers to auth.check_session and auth.login
\*   http403   HTTP 403 to every non-auth method, normal answers to the
\*             auth methods
\*   authAll   an auth-classified error to every call
\*   already   "already in session" to every add RPC, normal answers to
\*             everything else
\*   denied    a 403 to every core.get_config (HTTP 403 or the payload-level
\*             marker), normal answers to everything else
\*   steady    a result to every call, neither null nor false, and no
\*             session headers
ServerModes == {"free", "plain", "authErr", "http403", "authAll", "already", "denied",
                "steady"}

Responses(mode, m, arg, used) ==
    CASE mode = "authErr" ->
            IF m \in AuthMethods THEN NormalResponses(m, arg)
            ELSE {Ok200(ErrorPayload(AuthMsg), h) : h \in HeaderChoices}
      [] mode = "http403" ->
            IF m \in AuthMethods THEN NormalResponses(m, arg)
            ELSE {HttpError(403, h) : h \in HeaderChoices}
      [] mode = "authAll" -> {Ok200(ErrorPayload(AuthMsg), h) : h \in HeaderChoices}
      [] mode = "already" ->
            IF m \in AddMethods
            THEN {Ok200(ErrorPayload(AlreadyMsg), h) : h \in HeaderChoices}
            ELSE NormalResponses(m, arg)
      [] mode = "denied" ->
            IF m = CORE_GET_CONFIG
            THEN {HttpError(403, NoHeaders),
                  Ok200(Payload("status403", VNull, <<>>), NoHeaders)}
            ELSE NormalResponses(m, arg)
      [] mode = "steady" ->
            {r \in NormalResponses(m, arg) :
                r.payload.res # VNull /\ r.payload.res # VFalse /\ r.cookie = NoStr}
      [] mode = "plain" -> PlainResponses(m, arg)
      [] OTHER -> PlainResponses(m, arg)
                  \cup (IF used < MaxStale THEN StaleResponses(m) ELSE {})

(***************************************************************************)
(* State.                                                                  *)
(***************************************************************************)
VARIABLES
    comp,       \* the two component sets: "cached" are the orchestrator's
                \* this.auth/request/daemon/plugins/torrent, "temp" the locals
                \* of validateServerAndGetPlugins
    orch,       \* DelugeConnection: currentServerIndex, isValidating; the
                \* PopupController in SpecPopup and the SafeMessenger in
                \* SpecMessenger
    stack,      \* suspended async calls, innermost last
    ret,        \* value or exception delivered to the innermost call; with
                \* an empty stack, the outcome of the operation
    inflight,   \* the HTTP response fetch() resolved with, not yet handled
    log,        \* HTTP calls issued by the current operation, in order
    notes,      \* notifications shown by the current operation, in order
    op,         \* the current top-level operation and its arguments
    srv,        \* the server's behaviour during the current operation
    calls,      \* number of HTTP calls of the current operation
    stale       \* number of expired-session answers of the current operation

vars == <<comp, orch, stack, ret, inflight, log, notes, op, srv, calls, stale>>

Owners == {"cached", "temp"}

\* fields of DelugeAuth, DelugeRequest and DelugeDaemon of one component
\* set.  DelugeRequest.state, DelugeDaemon.serverConfig, DelugePlugins.plugins
\* and DelugePlugins.pluginInfo are written and never read by the core: they
\* are left out.
Components(exists, url, pass) ==
    [exists |-> exists, url |-> url, pass |-> pass, isValidating |-> FALSE,
     sessionCookie |-> NoStr, sessionId |-> NoStr, csrfToken |-> NoStr,
     daemonInfo |-> <<>>, daemonHosts |-> <<>>]
NoComponents == Components(FALSE, <<>>, "")

\* a suspended call
Frame(fn, own, pc) ==
    [fn |-> fn, own |-> own, pc |-> pc, m |-> "", arg |-> "", n |-> 0,
     silent |-> FALSE, loc |-> <<>>, err |-> <<>>]

NoRet == [k |-> "none", p |-> NullPayload, e |-> <<>>]
Returns(p) == [k |-> "ret", p |-> p, e |-> <<>>]
ReturnsVal(v) == Returns(ResultPayload(v))
Throws(e) == [k |-> "throw", p |-> NullPayload, e |-> <<e>>]

Top == stack[Len(stack)]
Rest == SubSeq(stack, 1, Len(stack) - 1)
Running(fn, pc) == stack # <<>> /\ Top.fn = fn /\ Top.pc = pc
AtCall(fn) == Running(fn, "start") /\ ret.k = "none"
AtResume(fn, pc) == Running(fn, pc) /\ ret.k # "none"

\* the innermost call finishes
Finish(r) == stack' = Rest /\ ret' = r
\* the innermost call moves to pc and awaits the calls pushed on top of it
Await(pc, frames) ==
    /\ stack' = Rest \o <<[Top EXCEPT !.pc = pc]>> \o frames
    /\ ret' = NoRet
\* the innermost call is replaced (return f(...) in tail position)
TailCall(frame) == stack' = Rest \o <<frame>> /\ ret' = NoRet

RequestFrame(own, m, arg, silent, n) ==
    [Frame("request", own, "start") EXCEPT !.m = m, !.arg = arg,
                                           !.silent = silent, !.n = n]
LoginFrame(own, silent) == [Frame("login", own, "start") EXCEPT !.silent = silent]

\* a top-level operation and its arguments
Op(name, idx, validating, m) ==
    [name |-> name, idx |-> idx, validating |-> validating, m |-> m]
NoOp == Op("none", Undefined, FALSE, "")

Init ==
    /\ comp = [o \in Owners |-> NoComponents]
    /\ orch = [currentServerIndex |-> 0, isValidating |-> FALSE]
    /\ stack = <<>>
    /\ ret = NoRet
    /\ inflight = NoResponse
    /\ log = <<>>
    /\ notes = <<>>
    /\ op = NoOp
    /\ srv = "free"
    /\ calls = 0
    /\ stale = 0

(***************************************************************************)
(* DelugeAuth: session store.                                              *)
(***************************************************************************)
\* setCookie.match(/_session_id=([^;]+)/): the captured id, NoStr when the
\* header has no _session_id
SessionIdOf(setCookie) ==
    CASE setCookie = SessionCookie1 -> "s1"
      [] setCookie = SessionCookie2 -> "s2"
      [] OTHER -> NoStr

clearSession(c) ==
    [c EXCEPT !.sessionCookie = NoStr, !.sessionId = NoStr, !.csrfToken = NoStr]

updateSessionCookie(c, setCookie) ==
    [c EXCEPT !.sessionCookie = setCookie,
              !.sessionId = IF SessionIdOf(setCookie) # NoStr
                            THEN SessionIdOf(setCookie) ELSE @]

updateCsrfToken(c, csrfToken) == [c EXCEPT !.csrfToken = csrfToken]

\* session data taken from successful responses only
extractSessionDataOkOnly(c, response) ==
    IF response.status # 200 THEN c
    ELSE LET c1 == IF response.cookie # NoStr
                   THEN updateSessionCookie(c, response.cookie) ELSE c
         IN IF response.csrf # NoStr THEN updateCsrfToken(c1, response.csrf) ELSE c1

\* DelugeRequest.extractSessionData
extractSessionData(c, response) ==
    LET c1 == IF response.cookie # NoStr
              THEN updateSessionCookie(c, response.cookie) ELSE c
    IN IF response.csrf # NoStr THEN updateCsrfToken(c1, response.csrf) ELSE c1

\* DelugeAuth.isAuthError
isAuthError(payload) == payload.kind = "error" /\ isAuthErrorMessage(payload.msg)

(***************************************************************************)
(* DelugeRequest.request                                                   *)
(***************************************************************************)
\* new URL('json', base) throws on a base that is not an absolute URL
ValidUrl(url) == url # <<>> /\ url[1] \in {"http://a:8112", "http://b:8112", "http://c:8112"}

\* buildRequestUrl: join the base URL and 'json', adding the slash if missing
buildRequestUrl(url) ==
    (IF url[Len(url)] = "/" THEN url ELSE url \o <<"/">>) \o <<"json">>

\* the special case tested after the auth classification
IsAlreadyInSessionAfterAuth(payload) ==
    /\ payload.kind = "error"
    /\ Includes(payload.msg, "already in session")
    /\ ~isAuthErrorMessage(payload.msg)

\* payload.error.message?.includes('already in session')
IsAlreadyInSession(payload) ==
    payload.kind = "error" /\ Includes(payload.msg, "already in session")

\* a retry budget checked one attempt late
RetriesExhaustedLate(n) == n > maxRetries

\* _retryAttempt >= this.maxRetries
RetriesExhausted(n) == n >= maxRetries

\* a 403 that is never taken for an expired session
IsStaleSession403Never(response, m) == FALSE

\* response.status === 403 && !method.includes('torrent')
IsStaleSession403(response, m) == response.status = 403 /\ ~MethodIncludesTorrent(m)

\* the step of connectToServer / validateServerAndGetPlugins under which a
\* call is issued: the function the orchestrator frame is awaiting
StepOf(stk) ==
    LET idx == {i \in DOMAIN stk : stk[i].fn \in {"connectToServer", "validate"}}
    IN IF idx = {} THEN "none"
       ELSE LET i == CHOOSE j \in idx : \A k \in idx : k <= j
            IN IF i < Len(stk) THEN stk[i + 1].fn ELSE "none"

\* line 62, id: `${Date.now()}`.  The clock of an operation is counted in
\* milliseconds from the operation's start; the last id issued is the time
\* of the last call.
LastId == IF log = <<>> THEN 0 ELSE log[Len(log)].id

\* the milliseconds that may have passed since the last call was issued.
\* Under the http403 server no timer runs between two calls of an operation
\* and the next call may fall into the same millisecond; elsewhere the clock
\* is taken to have advanced.
Elapsed == IF srv = "http403" THEN {0, 1} ELSE {1}

LogEntry(f, url, stk, id) ==
    [m |-> f.m, arg |-> f.arg, own |-> f.own, url |-> url, step |-> StepOf(stk),
     id |-> id]

\* DelugeRequest.buildHeaders: header names and values, one after the other.
\* No Cookie header is set; the CSRF token, when one is stored, goes into
\* X-Deluge-Token.
buildHeaders(c) ==
    <<"Content-Type", "application/json", "Accept", "application/json">>
    \o (IF c.csrfToken \notin {NoStr, ""} THEN <<"X-Deluge-Token", c.csrfToken>> ELSE <<>>)

\* lines 39-87: checks, URL, headers, body, fetch; loc keeps the headers of
\* the call
RequestStart ==
    /\ AtCall("request")
    /\ LET c == comp[Top.own] IN
         IF c.url = <<>>
         THEN /\ Finish(Throws(NetworkError(<<"Server URL not available">>, 0)))
              /\ UNCHANGED <<log, calls>>
         ELSE IF ~ValidUrl(c.url)
         THEN /\ Finish(Throws(NetworkError(<<"Invalid server URL">>, 0)))
              /\ UNCHANGED <<log, calls>>
         ELSE /\ calls < MaxCalls
              /\ calls' = calls + 1
              /\ \E ms \in Elapsed :
                    log' = Append(log, LogEntry(Top, buildRequestUrl(c.url), stack,
                                                LastId + ms))
              /\ stack' = Rest \o <<[Top EXCEPT !.pc = "fetch",
                                                !.loc = buildHeaders(c)]>>
              /\ ret' = NoRet
    /\ UNCHANGED <<comp, orch, inflight, notes, op, srv, stale>>

\* the server answers the call in flight
ServerRespond ==
    /\ Running("request", "fetch")
    /\ inflight.net = "none"
    /\ \E r \in Responses(srv, Top.m, Top.arg, stale) :
          /\ inflight' = r
          /\ stale' = IF r \in StaleResponses(Top.m) THEN stale + 1 ELSE stale
    /\ UNCHANGED <<comp, orch, stack, ret, log, notes, op, srv, calls>>

\* lines 89-168: the response is handled
RequestResponse ==
    /\ Running("request", "fetch")
    /\ inflight.net # "none"
    /\ inflight' = NoResponse
    /\ LET f == Top
           own == f.own
           stored == [comp EXCEPT ![own] = extractSessionData(@, inflight)]
           payload == inflight.payload
       IN
       CASE inflight.net = "fail" ->
              /\ Finish(Throws(PlainError(<<"Failed to fetch">>)))
              /\ UNCHANGED comp
         [] inflight.net = "abort" ->
              /\ Finish(Throws(NetworkError(<<"Request timed out after 30000ms">>, 0)))
              /\ UNCHANGED comp
         [] inflight.net = "ok" /\ inflight.status # 200 ->
              /\ comp' = stored
              /\ IF IsStaleSession403(inflight, f.m)
                 THEN Await("checked", <<Frame("checkSession", own, "start")>>)
                 ELSE Finish(Throws(NetworkError(
                          <<"HTTP error! status:", ToString(inflight.status)>>,
                          inflight.status)))
         [] inflight.net = "ok" /\ inflight.status = 200 /\ payload.kind = "error" ->
              IF IsAlreadyInSession(payload)
              THEN /\ comp' = stored
                   /\ Finish(Returns(payload))
              ELSE IF isAuthError(payload)
              THEN IF RetriesExhausted(f.n)
                   THEN /\ comp' = stored
                        /\ Finish(Throws(AuthenticationError(
                               <<"Authentication failed after multiple retries">>)))
                   ELSE /\ comp' = [stored EXCEPT ![own] = clearSession(@)]
                        /\ Await("relogin", <<LoginFrame(own, f.silent)>>)
              ELSE /\ comp' = stored
                   /\ Finish(Throws(PlainError(payload.msg)))
         [] inflight.net = "ok" /\ inflight.status = 200 /\ payload.kind = "status403" ->
              /\ comp' = stored
              /\ Finish(Throws(NetworkError(<<"Access denied by remote server">>, 403)))
         [] OTHER ->
              /\ comp' = stored
              /\ Finish(Returns(payload))
    /\ UNCHANGED <<orch, log, notes, op, srv, calls, stale>>

\* line 102: return this.request(method, params, silent)
RequestAfterCheckSession ==
    /\ AtResume("request", "checked")
    /\ IF ret.k = "throw"
       THEN Finish(ret)
       ELSE TailCall(RequestFrame(Top.own, Top.m, Top.arg, Top.silent, 0))
    /\ UNCHANGED <<comp, orch, inflight, log, notes, op, srv, calls, stale>>

\* a retry counter kept by the Requester: the retries of all its calls
RequestAfterLoginSharedCount ==
    /\ AtResume("request", "relogin")
    /\ IF ret.k = "throw"
       THEN Finish(ret)
       ELSE LET sent == {i \in DOMAIN log : log[i].m \notin AuthMethods}
                retried == Cardinality(sent) - Cardinality({log[i].m : i \in sent})
            IN TailCall(RequestFrame(Top.own, Top.m, Top.arg, Top.silent, retried + 1))
    /\ UNCHANGED <<comp, orch, inflight, log, notes, op, srv, calls, stale>>

\* lines 140-141: after login, return this.request(..., _retryAttempt + 1)
RequestAfterLogin ==
    /\ AtResume("request", "relogin")
    /\ IF ret.k = "throw"
       THEN Finish(ret)
       ELSE TailCall(RequestFrame(Top.own, Top.m, Top.arg, Top.silent, Top.n + 1))
    /\ UNCHANGED <<comp, orch, inflight, log, notes, op, srv, calls, stale>>

(***************************************************************************)
(* DelugeAuth.checkSession, DelugeAuth.login                               *)
(***************************************************************************)
CheckSessionStart ==
    /\ AtCall("checkSession")
    /\ Await("wait", <<RequestFrame(Top.own, AUTH_CHECK_SESSION, "", TRUE, 0)>>)
    /\ UNCHANGED <<comp, orch, inflight, log, notes, op, srv, calls, stale>>

\* true only for a result that is exactly true; a thrown error gives false
CheckSessionDone ==
    /\ AtResume("checkSession", "wait")
    /\ IF ret.k = "ret" /\ ret.p.kind = "result" /\ ret.p.res = VTrue
       THEN Finish(ReturnsVal(VTrue))
       ELSE Finish(ReturnsVal(VFalse))
    /\ UNCHANGED <<comp, orch, inflight, log, notes, op, srv, calls, stale>>

\* DelugeAuth.deleteSession: the call is silent
DeleteSessionStart ==
    /\ AtCall("deleteSession")
    /\ Await("wait", <<RequestFrame(Top.own, AUTH_DELETE_SESSION, "", TRUE, 0)>>)
    /\ UNCHANGED <<comp, orch, inflight, log, notes, op, srv, calls, stale>>

\* the session is cleared after an answer; the catch block logs and rethrows
DeleteSessionDone ==
    /\ AtResume("deleteSession", "wait")
    /\ IF ret.k = "throw"
       THEN Finish(ret) /\ UNCHANGED comp
       ELSE /\ comp' = [comp EXCEPT ![Top.own] = clearSession(@)]
            /\ Finish(ReturnsVal(VNull))
    /\ UNCHANGED <<orch, inflight, log, notes, op, srv, calls, stale>>

\* lines 358-367: clear the session and send auth.login
FreshLogin(own, f) ==
    /\ comp' = [comp EXCEPT ![own] = clearSession(@)]
    /\ Await("login", <<RequestFrame(own, AUTH_LOGIN, comp[own].pass, f.silent, 0)>>)

\* a login that checks for a session whatever the mode
LoginStartAlwaysChecks ==
    /\ AtCall("login")
    /\ IF comp[Top.own].pass = ""
       THEN Finish(Throws(AuthenticationError(<<"No password available">>)))
       ELSE Await("checked", <<Frame("checkSession", Top.own, "start")>>)
    /\ UNCHANGED <<comp, orch, inflight, log, notes, op, srv, calls, stale>>

LoginStart ==
    /\ AtCall("login")
    /\ LET own == Top.own IN
       IF comp[own].pass = ""
       THEN /\ Finish(Throws(AuthenticationError(<<"No password available">>)))
            /\ UNCHANGED comp
       ELSE IF comp[own].isValidating
       THEN FreshLogin(own, Top)
       ELSE /\ Await("checked", <<Frame("checkSession", own, "start")>>)
            /\ UNCHANGED comp
    /\ UNCHANGED <<orch, inflight, log, notes, op, srv, calls, stale>>

LoginAfterCheck ==
    /\ AtResume("login", "checked")
    /\ IF ret.k = "throw"
       THEN Finish(ret) /\ UNCHANGED comp
       ELSE IF ret.p.res = VTrue
       THEN Finish(ReturnsVal(VTrue)) /\ UNCHANGED comp
       ELSE FreshLogin(Top.own, Top)
    /\ UNCHANGED <<orch, inflight, log, notes, op, srv, calls, stale>>

LoginAfterRequest ==
    /\ AtResume("login", "login")
    /\ IF ret.k = "throw"
       THEN Finish(ret)
       ELSE IF ret.p.kind = "result" /\ ret.p.res = VTrue
       THEN Finish(ReturnsVal(VTrue))
       ELSE Finish(Throws(AuthenticationError(
                <<"Login failed - check your Deluge password">>)))
    /\ UNCHANGED <<comp, orch, inflight, log, notes, op, srv, calls, stale>>

(***************************************************************************)
(* DelugeDaemon                                                            *)
(***************************************************************************)
OneArgFrame(fn, own, arg) == [Frame(fn, own, "start") EXCEPT !.arg = arg]

GetDaemonsStart ==
    /\ AtCall("getDaemons")
    /\ Await("wait", <<RequestFrame(Top.own, WEB_GET_HOSTS, "", FALSE, 0)>>)
    /\ UNCHANGED <<comp, orch, inflight, log, notes, op, srv, calls, stale>>

\* this.daemonHosts = payload.result || []
GetDaemonsDone ==
    /\ AtResume("getDaemons", "wait")
    /\ IF ret.k = "throw"
       THEN /\ Finish(Throws(DaemonError(<<"Failed to get daemon list">>, ret.e)))
            /\ UNCHANGED comp
       ELSE LET hosts == IF Truthy(ret.p.res) THEN ret.p.res.s ELSE <<>> IN
            /\ comp' = [comp EXCEPT ![Top.own].daemonHosts = hosts]
            /\ Finish(ReturnsVal(VList(hosts)))
    /\ UNCHANGED <<orch, inflight, log, notes, op, srv, calls, stale>>

GetHostStatusStart ==
    /\ AtCall("getHostStatus")
    /\ Await("wait", <<RequestFrame(Top.own, WEB_GET_HOST_STATUS, Top.arg, FALSE, 0)>>)
    /\ UNCHANGED <<comp, orch, inflight, log, notes, op, srv, calls, stale>>

\* the result is [hostId, status, version]; every failure, the missing
\* result included, is rethrown as "Failed to get status for host"
GetHostStatusDone ==
    /\ AtResume("getHostStatus", "wait")
    /\ LET wrap(cause) ==
               Throws(DaemonError(<<"Failed to get status for host", Top.arg>>, <<cause>>))
       IN
       IF ret.k = "throw"
       THEN Finish(wrap(ret.e[1]))
       ELSE IF ~Truthy(ret.p.res)
       THEN Finish(wrap(DaemonError(<<"Failed to get host status">>, <<>>)))
       ELSE Finish(ReturnsVal(VList(ret.p.res.s)))
    /\ UNCHANGED <<comp, orch, inflight, log, notes, op, srv, calls, stale>>

StartDaemonStart ==
    /\ AtCall("startDaemon")
    /\ Await("wait", <<RequestFrame(Top.own, WEB_START_DAEMON, Top.arg, FALSE, 0)>>)
    /\ UNCHANGED <<comp, orch, inflight, log, notes, op, srv, calls, stale>>

StartDaemonDone ==
    /\ AtResume("startDaemon", "wait")
    /\ IF ret.k = "throw"
       THEN Finish(Throws(DaemonError(<<"Failed to start daemon">>, ret.e)))
       ELSE Finish(ReturnsVal(VNull))
    /\ UNCHANGED <<comp, orch, inflight, log, notes, op, srv, calls, stale>>

ConnectStart ==
    /\ AtCall("connect")
    /\ Await("wait", <<RequestFrame(Top.own, WEB_CONNECT, Top.arg, FALSE, 0)>>)
    /\ UNCHANGED <<comp, orch, inflight, log, notes, op, srv, calls, stale>>

ConnectDone ==
    /\ AtResume("connect", "wait")
    /\ IF ret.k = "throw"
       THEN Finish(Throws(DaemonError(<<"Failed to connect to daemon">>, ret.e)))
       ELSE Finish(ReturnsVal(VNull))
    /\ UNCHANGED <<comp, orch, inflight, log, notes, op, srv, calls, stale>>

\* attemptDaemonConnection: host status first
AttemptStart ==
    /\ AtCall("attemptDaemonConnection")
    /\ Await("status", <<OneArgFrame("getHostStatus", Top.own, Top.arg)>>)
    /\ UNCHANGED <<comp, orch, inflight, log, notes, op, srv, calls, stale>>

\* the switch on daemonInfo.status; loc keeps [hostId, status]
AttemptAfterStatus ==
    /\ AtResume("attemptDaemonConnection", "status")
    /\ IF ret.k = "throw"
       THEN Finish(ret)
       ELSE LET info == ret.p.res.s
                status == info[2]
                keep == [Top EXCEPT !.loc = info]
            IN CASE status = "Connected" -> Finish(ReturnsVal(VList(info)))
                 [] status = "Online" ->
                      /\ stack' = Rest \o <<[keep EXCEPT !.pc = "connect"],
                                            OneArgFrame("connect", Top.own, Top.arg)>>
                      /\ ret' = NoRet
                 [] status = "Offline" ->
                      /\ stack' = Rest \o <<[keep EXCEPT !.pc = "started"],
                                            OneArgFrame("startDaemon", Top.own, Top.arg)>>
                      /\ ret' = NoRet
                 [] OTHER ->
                      Finish(Throws(DaemonError(<<"Unknown daemon status:", status>>, <<>>)))
    /\ UNCHANGED <<comp, orch, inflight, log, notes, op, srv, calls, stale>>

\* an attempt that goes on to web.connect whatever web.start_daemon gave
AttemptAfterStartDaemonAlwaysConnects ==
    /\ AtResume("attemptDaemonConnection", "started")
    /\ Await("connect", <<OneArgFrame("connect", Top.own, Top.arg)>>)
    /\ UNCHANGED <<comp, orch, inflight, log, notes, op, srv, calls, stale>>

AttemptAfterStartDaemon ==
    /\ AtResume("attemptDaemonConnection", "started")
    /\ IF ret.k = "throw"
       THEN Finish(ret)
       ELSE Await("connect", <<OneArgFrame("connect", Top.own, Top.arg)>>)
    /\ UNCHANGED <<comp, orch, inflight, log, notes, op, srv, calls, stale>>

AttemptAfterConnect ==
    /\ AtResume("attemptDaemonConnection", "connect")
    /\ IF ret.k = "throw"
       THEN Finish(ret)
       ELSE Finish(ReturnsVal(VList(Top.loc)))
    /\ UNCHANGED <<comp, orch, inflight, log, notes, op, srv, calls, stale>>

\* DaemonInfo, identified by its host_id; status, ip, port and version are
\* copies of the answers of the server
buildDaemonInfo(statusInfo) == <<statusInfo[1]>>

\* lines 118-126: the cached DaemonInfo, else the host list
ConnectToDaemonStart ==
    /\ AtCall("connectToDaemon")
    /\ IF comp[Top.own].daemonInfo # <<>>
       THEN Finish(ReturnsVal(VList(comp[Top.own].daemonInfo)))
       ELSE Await("hosts", <<Frame("getDaemons", Top.own, "start")>>)
    /\ UNCHANGED <<comp, orch, inflight, log, notes, op, srv, calls, stale>>

\* the for loop at host n of loc
AttemptHost(f, hosts, n, lastError) ==
    /\ stack' = Rest \o <<[f EXCEPT !.pc = "attempt", !.loc = hosts, !.n = n,
                                    !.err = lastError],
                          OneArgFrame("attemptDaemonConnection", f.own, hosts[n])>>
    /\ ret' = NoRet

ConnectToDaemonAfterHosts ==
    /\ AtResume("connectToDaemon", "hosts")
    /\ IF ret.k = "throw"
       THEN Finish(ret)
       ELSE IF ret.p.res.s = <<>>
       THEN Finish(Throws(DaemonError(<<"No daemons available">>, <<>>)))
       ELSE AttemptHost(Top, ret.p.res.s, 1, <<>>)
    /\ UNCHANGED <<comp, orch, inflight, log, notes, op, srv, calls, stale>>

\* a loop that gives up at the first failed host
HostsLeftNever(f) == FALSE

\* after a failed attempt the loop goes on while hosts are left
HostsLeft(f) == f.n < Len(f.loc)

\* a loop that goes on to the next host after a successful attempt as well
ConnectToDaemonAfterAttemptKeepsGoing ==
    /\ AtResume("connectToDaemon", "attempt")
    /\ IF ret.k = "ret"
       THEN /\ comp' = [comp EXCEPT ![Top.own].daemonInfo = buildDaemonInfo(ret.p.res.s)]
            /\ IF HostsLeft(Top)
               THEN AttemptHost(Top, Top.loc, Top.n + 1, Top.err)
               ELSE Finish(ret)
       ELSE /\ UNCHANGED comp
            /\ IF HostsLeft(Top)
               THEN AttemptHost(Top, Top.loc, Top.n + 1, ret.e)
               ELSE Finish(Throws(DaemonError(<<"Failed to connect to any daemon">>, ret.e)))
    /\ UNCHANGED <<orch, inflight, log, notes, op, srv, calls, stale>>

ConnectToDaemonAfterAttempt ==
    /\ AtResume("connectToDaemon", "attempt")
    /\ IF ret.k = "ret"
       THEN /\ comp' = [comp EXCEPT ![Top.own].daemonInfo = buildDaemonInfo(ret.p.res.s)]
            /\ Finish(ret)
       ELSE /\ UNCHANGED comp
            /\ IF HostsLeft(Top)
               THEN AttemptHost(Top, Top.loc, Top.n + 1, ret.e)
               ELSE Finish(Throws(DaemonError(<<"Failed to connect to any daemon">>, ret.e)))
    /\ UNCHANGED <<orch, inflight, log, notes, op, srv, calls, stale>>

GetServerConfigStart ==
    /\ AtCall("getServerConfig")
    /\ Await("wait", <<RequestFrame(Top.own, CORE_GET_CONFIG, "", FALSE, 0)>>)
    /\ UNCHANGED <<comp, orch, inflight, log, notes, op, srv, calls, stale>>

GetServerConfigDone ==
    /\ AtResume("getServerConfig", "wait")
    /\ LET thrown == IF ret.k = "throw" THEN ret.e[1]
                     ELSE ConnectionError(<<"No config result">>, <<>>)
       IN
       IF ret.k = "ret" /\ Truthy(ret.p.res)
       THEN Finish(ReturnsVal(ret.p.res))
       ELSE IF thrown.msg = <<"Access denied by remote server">>
       THEN Finish(Throws(ConnectionError(
                <<"Remote connections are not enabled on your Deluge server">>, <<>>)))
       ELSE Finish(Throws(ConnectionError(
                <<"Failed to get server configuration">>, <<thrown>>)))
    /\ UNCHANGED <<comp, orch, inflight, log, notes, op, srv, calls, stale>>

(***************************************************************************)
(* DelugePlugins                                                           *)
(***************************************************************************)
RECURSIVE TruthyKeys(_)
\* Object.keys(pluginObj).filter(key => pluginObj[key]) of an object given
\* as <<key, value, key, value, ...>>
TruthyKeys(kv) ==
    IF Len(kv) < 2 THEN <<>>
    ELSE (IF kv[2] = "true" THEN <<kv[1]>> ELSE <<>>)
         \o TruthyKeys(SubSeq(kv, 3, Len(kv)))

SeqIncludes(xs, x) == \E i \in DOMAIN xs : xs[i] = x

GetPluginsStart ==
    /\ AtCall("getPlugins")
    /\ Await("wait", <<RequestFrame(Top.own, WEB_GET_PLUGINS, "", FALSE, 0)>>)
    /\ UNCHANGED <<comp, orch, inflight, log, notes, op, srv, calls, stale>>

\* every failure, the missing result included, becomes "Failed to get
\* plugin list"
GetPluginsDone ==
    /\ AtResume("getPlugins", "wait")
    /\ LET wrap(cause) == Throws(PluginError(<<"Failed to get plugin list">>, <<cause>>))
           result == ret.p.res
           plugins == CASE result.t = "list" -> result.s
                        [] result.t = "obj" -> TruthyKeys(result.s)
                        [] OTHER -> <<>>
       IN
       IF ret.k = "throw"
       THEN Finish(wrap(ret.e[1])) /\ UNCHANGED comp
       ELSE IF ~Truthy(result)
       THEN /\ Finish(wrap(PluginError(<<"No plugin data received">>, <<>>)))
            /\ UNCHANGED comp
       ELSE /\ Finish(ReturnsVal(VList(plugins)))
            /\ UNCHANGED comp
    /\ UNCHANGED <<orch, inflight, log, notes, op, srv, calls, stale>>

TryStandardLabelsStart ==
    /\ AtCall("tryStandardLabels")
    /\ Await("wait", <<RequestFrame(Top.own, LABEL_GET_LABELS, "", FALSE, 0)>>)
    /\ UNCHANGED <<comp, orch, inflight, log, notes, op, srv, calls, stale>>

TryStandardLabelsDone ==
    /\ AtResume("tryStandardLabels", "wait")
    /\ IF ret.k = "throw"
       THEN Finish(ret)
       ELSE IF ret.p.res.t = "list"
       THEN Finish(ReturnsVal(ret.p.res))
       ELSE IF ret.p.kind = "error"
       THEN Finish(Throws(PlainError(<<"Standard method failed: ">> \o ret.p.msg)))
       ELSE Finish(ReturnsVal(VList(<<>>)))
    /\ UNCHANGED <<comp, orch, inflight, log, notes, op, srv, calls, stale>>

TryLegacyLabelsStart ==
    /\ AtCall("tryLegacyLabels")
    /\ Await("wait", <<RequestFrame(Top.own, LABEL_GET_CONFIG, "", FALSE, 0)>>)
    /\ UNCHANGED <<comp, orch, inflight, log, notes, op, srv, calls, stale>>

\* result.labels must be an array
TryLegacyLabelsDone ==
    /\ AtResume("tryLegacyLabels", "wait")
    /\ IF ret.k = "throw"
       THEN Finish(ret)
       ELSE IF ret.p.res.t = "labels"
       THEN Finish(ReturnsVal(VList(ret.p.res.s)))
       ELSE Finish(Throws(PlainError(<<"Legacy method returned no labels">>)))
    /\ UNCHANGED <<comp, orch, inflight, log, notes, op, srv, calls, stale>>

TryLabelPlusLabelsStart ==
    /\ AtCall("tryLabelPlusLabels")
    /\ Await("wait", <<RequestFrame(Top.own, LABELPLUS_GET_LABELS, "", FALSE, 0)>>)
    /\ UNCHANGED <<comp, orch, inflight, log, notes, op, srv, calls, stale>>

\* the names of the values of the result object; a value without a string
\* name (NoStr here) is dropped
TryLabelPlusLabelsDone ==
    /\ AtResume("tryLabelPlusLabels", "wait")
    /\ IF ret.k = "throw"
       THEN Finish(ret)
       ELSE IF ret.p.res.t = "names"
       THEN Finish(ReturnsVal(VList(SelectSeq(ret.p.res.s, LAMBDA x : x # NoStr))))
       ELSE IF ret.p.res.t \in {"list", "obj", "labels"}
       THEN Finish(ReturnsVal(VList(<<>>)))
       ELSE Finish(Throws(PlainError(<<"LabelPlus method returned no labels">>)))
    /\ UNCHANGED <<comp, orch, inflight, log, notes, op, srv, calls, stale>>

\* a strategy accepted as soon as it does not throw
GotLabelsEvenEmpty(r) == r.k = "ret"

\* labels.length > 0 of a strategy that did not throw
GotLabels(r) == r.k = "ret" /\ r.p.res.s # <<>>

GetLabelsStart ==
    /\ AtCall("getLabels")
    /\ Await("standard", <<Frame("tryStandardLabels", Top.own, "start")>>)
    /\ UNCHANGED <<comp, orch, inflight, log, notes, op, srv, calls, stale>>

GetLabelsAfterStandard ==
    /\ AtResume("getLabels", "standard")
    /\ IF GotLabels(ret)
       THEN Finish(ret)
       ELSE Await("legacy", <<Frame("tryLegacyLabels", Top.own, "start")>>)
    /\ UNCHANGED <<comp, orch, inflight, log, notes, op, srv, calls, stale>>

GetLabelsAfterLegacy ==
    /\ AtResume("getLabels", "legacy")
    /\ IF GotLabels(ret)
       THEN Finish(ret)
       ELSE Await("labelplus", <<Frame("tryLabelPlusLabels", Top.own, "start")>>)
    /\ UNCHANGED <<comp, orch, inflight, log, notes, op, srv, calls, stale>>

GetLabelsAfterLabelPlus ==
    /\ AtResume("getLabels", "labelplus")
    /\ IF GotLabels(ret)
       THEN Finish(ret)
       ELSE Finish(ReturnsVal(VList(<<>>)))
    /\ UNCHANGED <<comp, orch, inflight, log, notes, op, srv, calls, stale>>

\* PluginInfo {hasLabelPlugin, hasLabelPlusPlugin, labels}
PluginInfo(hasLabel, hasLabelPlus, labels) ==
    Val("pluginInfo", <<ToString(hasLabel), ToString(hasLabelPlus)>> \o labels)

GetPluginInfoStart ==
    /\ AtCall("getPluginInfo")
    /\ Await("plugins", <<Frame("getPlugins", Top.own, "start")>>)
    /\ UNCHANGED <<comp, orch, inflight, log, notes, op, srv, calls, stale>>

\* a summary that asks for the labels whatever the plugin list holds
GetPluginInfoAfterPluginsAlwaysLabels ==
    /\ AtResume("getPluginInfo", "plugins")
    /\ IF ret.k = "throw"
       THEN Finish(ret)
       ELSE LET plugins == ret.p.res.s
                hasLabel == SeqIncludes(plugins, "Label") \/ SeqIncludes(plugins, "label")
                hasLabelPlus == SeqIncludes(plugins, "LabelPlus")
                                \/ SeqIncludes(plugins, "labelplus")
            IN /\ stack' = Rest \o <<[Top EXCEPT !.pc = "labels",
                                         !.loc = PluginInfo(hasLabel, hasLabelPlus, <<>>).s],
                                     Frame("getLabels", Top.own, "start")>>
               /\ ret' = NoRet
    /\ UNCHANGED <<comp, orch, inflight, log, notes, op, srv, calls, stale>>

GetPluginInfoAfterPlugins ==
    /\ AtResume("getPluginInfo", "plugins")
    /\ IF ret.k = "throw"
       THEN Finish(ret) /\ UNCHANGED comp
       ELSE LET plugins == ret.p.res.s
                hasLabel == SeqIncludes(plugins, "Label") \/ SeqIncludes(plugins, "label")
                hasLabelPlus == SeqIncludes(plugins, "LabelPlus")
                                \/ SeqIncludes(plugins, "labelplus")
                info == PluginInfo(hasLabel, hasLabelPlus, <<>>)
            IN IF hasLabel \/ hasLabelPlus
               THEN /\ stack' = Rest \o <<[Top EXCEPT !.pc = "labels", !.loc = info.s],
                                          Frame("getLabels", Top.own, "start")>>
                    /\ ret' = NoRet
                    /\ UNCHANGED comp
               ELSE /\ Finish(ReturnsVal(info))
                    /\ UNCHANGED comp
    /\ UNCHANGED <<orch, inflight, log, notes, op, srv, calls, stale>>

GetPluginInfoAfterLabels ==
    /\ AtResume("getPluginInfo", "labels")
    /\ LET labels == IF ret.k = "ret" THEN ret.p.res.s ELSE <<>>
           info == Val("pluginInfo", Top.loc \o labels)
       IN Finish(ReturnsVal(info))
    /\ UNCHANGED <<comp, orch, inflight, log, notes, op, srv, calls, stale>>

\* PluginOptions arguments: undefined, an object without label, a label
NoPlugins == "<undefined>"
NoLabel == "<nolabel>"
PluginOptionsArgs == {NoPlugins, NoLabel, "tv"}

\* processPluginOptions(torrentHash, plugins): arg is the hash, m the options
ProcessPluginOptionsFrame(own, hash, plugins) ==
    [Frame("processPluginOptions", own, "start") EXCEPT !.arg = hash, !.m = plugins]

ProcessPluginOptionsStart ==
    /\ AtCall("processPluginOptions")
    /\ IF Top.m = NoPlugins \/ Top.arg = "" \/ Top.m = NoLabel
       THEN Finish(ReturnsVal(VNull))
       ELSE Await("label", <<RequestFrame(Top.own, LABEL_SET_TORRENT, Top.arg, FALSE, 0)>>)
    /\ UNCHANGED <<comp, orch, inflight, log, notes, op, srv, calls, stale>>

\* a variant without the .catch
ProcessPluginOptionsDoneRethrows ==
    /\ AtResume("processPluginOptions", "label")
    /\ IF ret.k = "throw" THEN Finish(ret) ELSE Finish(ReturnsVal(VNull))
    /\ UNCHANGED <<comp, orch, inflight, log, notes, op, srv, calls, stale>>

\* .catch: a failure of label.set_torrent is logged only
ProcessPluginOptionsDone ==
    /\ AtResume("processPluginOptions", "label")
    /\ Finish(ReturnsVal(VNull))
    /\ UNCHANGED <<comp, orch, inflight, log, notes, op, srv, calls, stale>>

(***************************************************************************)
(* DelugeTorrent                                                           *)
(***************************************************************************)
MagnetUri == "magnet:?xt=urn:btih:abc123"
TorrentUrl == "http://tracker/x.torrent"
Sources == {MagnetUri, TorrentUrl}

\* url.startsWith('magnet:')
StartsWithMagnet(url) == url = MagnetUri

\* TorrentOptions.  A JavaScript value is written as text: "undefined" for a
\* missing field, "null", the booleans, the number 0, the empty string and a
\* path.
BooleanKeys == {"add_paused", "move_completed", "prioritize_first_last_pieces"}
PathKeys == {"download_location", "move_completed_path"}
NumberKeys == {"max_download_speed", "max_upload_speed", "max_connections",
               "max_upload_slots"}
OptionKeys == BooleanKeys \cup PathKeys \cup NumberKeys
\* the argument of buildTorrentOptions: not given, or an object
NoOptions == [given |-> FALSE, f |-> [k \in OptionKeys |-> "undefined"]]

\* the values a caller may hold in a field of each kind
OptionValues(k) ==
    IF k \in BooleanKeys THEN {"undefined", "null", "true", "0"}
    ELSE IF k \in PathKeys THEN {"undefined", "null", "", "/x"}
    ELSE {"undefined", "null", "0"}

OptionInputs ==
    {NoOptions}
    \cup {[given |-> TRUE,
            f |-> [k \in OptionKeys |-> IF k \in BooleanKeys THEN b[k]
                                        ELSE IF k \in PathKeys THEN p[k] ELSE n[k]]] :
            b \in [BooleanKeys -> OptionValues("add_paused")],
            p \in [PathKeys -> OptionValues("download_location")],
            n \in [NumberKeys -> OptionValues("max_connections")]}

\* JavaScript truthiness and Boolean(v)
JsTruthy(v) == v \notin {"undefined", "null", "false", "0", ""}
Boolean(v) == IF JsTruthy(v) THEN "true" ELSE "false"

\* if (options.k !== undefined) params.k = Boolean(options.k)
CoercedEntry(o, k) == IF o.f[k] # "undefined" THEN <<k, Boolean(o.f[k])>> ELSE <<>>
\* if (options.k) params.k = options.k
TruthyEntry(o, k) == IF JsTruthy(o.f[k]) THEN <<k, o.f[k]>> ELSE <<>>
\* if (options.k !== undefined) params.k = options.k
DefinedEntry(o, k) == IF o.f[k] # "undefined" THEN <<k, o.f[k]>> ELSE <<>>

\* DelugeTorrent.buildTorrentOptions: the params object as
\* <<key, value, key, value, ...>>
buildTorrentOptions(o) ==
    IF ~o.given THEN <<>>
    ELSE CoercedEntry(o, "add_paused")
         \o TruthyEntry(o, "download_location")
         \o CoercedEntry(o, "move_completed")
         \o TruthyEntry(o, "move_completed_path")
         \o DefinedEntry(o, "max_download_speed")
         \o DefinedEntry(o, "max_upload_speed")
         \o DefinedEntry(o, "max_connections")
         \o DefinedEntry(o, "max_upload_slots")
         \o CoercedEntry(o, "prioritize_first_last_pieces")

\* a call of buildTorrentOptions(options): loc holds the argument
BuildTorrentOptionsFrame(o) ==
    [Frame("buildTorrentOptions", "cached", "start") EXCEPT !.loc = <<o>>]

BuildTorrentOptionsCall ==
    /\ AtCall("buildTorrentOptions")
    /\ Finish(ReturnsVal(Val("obj", buildTorrentOptions(Top.loc[1]))))
    /\ UNCHANGED <<comp, orch, inflight, log, notes, op, srv, calls, stale>>

\* frames of addTorrent/addMagnet/addUrl/addFile: m is the source, arg the
\* plugin options
TorrentFrame(fn, own, source, plugins) ==
    [Frame(fn, own, "start") EXCEPT !.m = source, !.arg = plugins]

TorrentAddTorrent ==
    /\ AtCall("torrentAddTorrent")
    /\ IF StartsWithMagnet(Top.m)
       THEN TailCall(TorrentFrame("addMagnet", Top.own, Top.m, Top.arg))
       ELSE TailCall(TorrentFrame("addUrl", Top.own, Top.m, Top.arg))
    /\ UNCHANGED <<comp, orch, inflight, log, notes, op, srv, calls, stale>>

\* a variant that hands processPluginOptions the source instead of the hash
AddSucceededWithSource(hash) ==
    IF Top.arg # NoPlugins
    THEN /\ stack' = Rest \o <<[Top EXCEPT !.pc = "plugins", !.loc = <<hash>>],
                               ProcessPluginOptionsFrame(Top.own, Top.m, Top.arg)>>
         /\ ret' = NoRet
    ELSE Finish(ReturnsVal(VStr(hash)))

\* "Success - process plugin options if needed", then return the hash
AddSucceeded(hash) ==
    IF Top.arg # NoPlugins
    THEN /\ stack' = Rest \o <<[Top EXCEPT !.pc = "plugins", !.loc = <<hash>>],
                               ProcessPluginOptionsFrame(Top.own, hash, Top.arg)>>
         /\ ret' = NoRet
    ELSE Finish(ReturnsVal(VStr(hash)))

AddAfterPlugins(fn) ==
    /\ AtResume(fn, "plugins")
    /\ IF ret.k = "throw" THEN Finish(ret) ELSE Finish(ReturnsVal(VStr(Top.loc[1])))
    /\ UNCHANGED <<comp, orch, inflight, log, notes, op, srv, calls, stale>>

AddMagnetStart ==
    /\ AtCall("addMagnet")
    /\ Await("sent", <<RequestFrame(Top.own, CORE_ADD_TORRENT_MAGNET, Top.m, FALSE, 0)>>)
    /\ UNCHANGED <<comp, orch, inflight, log, notes, op, srv, calls, stale>>

\* a catch block that falls back after every exception
IsUnknownMethodErrorAny(e) == TRUE

\* line 96: error.message.includes('Unknown method')
IsUnknownMethodError(e) == Includes(e.msg, "Unknown method")

\* lines 57-101
AddMagnetAfterRequest ==
    /\ AtResume("addMagnet", "sent")
    /\ LET fallback == TailCall(TorrentFrame("addUrl", Top.own, Top.m, Top.arg))
           payload == ret.p
       IN
       IF ret.k = "throw"
       THEN IF IsUnknownMethodError(ret.e[1]) THEN fallback ELSE Finish(ret)
       ELSE IF payload.kind = "error"
       THEN IF Includes(payload.msg, "Unknown method")
               \/ Includes(payload.msg, "add_torrent_magnet")
            THEN fallback
            ELSE IF Includes(payload.msg, "Unsupported scheme")
            THEN Finish(Throws(TorrentError(
                     <<"Invalid magnet link format - unsupported scheme">>)))
            ELSE Finish(Throws(TorrentError(payload.msg)))
       ELSE IF ~Truthy(payload.res)
       THEN Finish(Throws(TorrentError(<<"Server refused magnet link">>)))
       ELSE AddSucceeded(payload.res.s[1])
    /\ UNCHANGED <<comp, orch, inflight, log, notes, op, srv, calls, stale>>

AddMagnetAfterPlugins == AddAfterPlugins("addMagnet")

AddUrlStart ==
    /\ AtCall("addUrl")
    /\ Await("sent", <<RequestFrame(Top.own, CORE_ADD_TORRENT_URL, Top.m, FALSE, 0)>>)
    /\ UNCHANGED <<comp, orch, inflight, log, notes, op, srv, calls, stale>>

\* lines 133-192
AddUrlAfterRequest ==
    /\ AtResume("addUrl", "sent")
    /\ LET payload == ret.p IN
       IF ret.k = "throw"
       THEN Finish(ret)
       ELSE IF payload.kind = "error"
       THEN IF Includes(payload.msg, "takes exactly 3 arguments")
               \/ Includes(payload.msg, "takes exactly three arguments")
            THEN Await("retry", <<RequestFrame(Top.own, CORE_ADD_TORRENT_URL,
                                               Top.m, FALSE, 0)>>)
            ELSE IF Includes(payload.msg, "403 Forbidden")
            THEN Finish(Throws([TorrentError(
                     <<"Unable to access torrent - the site may require authentication or cookies">>)
                     EXCEPT !.code = "403"]))
            ELSE Finish(Throws(TorrentError(payload.msg)))
       ELSE IF ~Truthy(payload.res)
       THEN Finish(Throws(TorrentError(<<"Server refused torrent">>)))
       ELSE AddSucceeded(payload.res.s[1])
    /\ UNCHANGED <<comp, orch, inflight, log, notes, op, srv, calls, stale>>

\* lines 154-163: the answer to the retry with empty headers
AddUrlAfterRetry ==
    /\ AtResume("addUrl", "retry")
    /\ IF ret.k = "throw"
       THEN Finish(ret)
       ELSE IF ~Truthy(ret.p.res)
       THEN Finish(Throws(TorrentError(<<"Server refused torrent">>)))
       ELSE AddSucceeded(ret.p.res.s[1])
    /\ UNCHANGED <<comp, orch, inflight, log, notes, op, srv, calls, stale>>

AddUrlAfterPlugins == AddAfterPlugins("addUrl")

TorrentFileName == "x.torrent"

AddFileStart ==
    /\ AtCall("addFile")
    /\ Await("sent", <<RequestFrame(Top.own, CORE_ADD_TORRENT_FILE, Top.m, FALSE, 0)>>)
    /\ UNCHANGED <<comp, orch, inflight, log, notes, op, srv, calls, stale>>

\* lines 215-249
AddFileAfterRequest ==
    /\ AtResume("addFile", "sent")
    /\ LET payload == ret.p IN
       IF ret.k = "throw"
       THEN Finish(ret)
       ELSE IF payload.kind = "error"
       THEN IF Includes(payload.msg, "already in session")
            THEN Finish(Throws([TorrentError(<<"Torrent already added to Deluge">>)
                                  EXCEPT !.code = "ALREADY_EXISTS"]))
            ELSE Finish(Throws(TorrentError(payload.msg)))
       ELSE IF ~Truthy(payload.res)
       THEN Finish(Throws(TorrentError(<<"Server refused torrent file">>)))
       ELSE AddSucceeded(payload.res.s[1])
    /\ UNCHANGED <<comp, orch, inflight, log, notes, op, srv, calls, stale>>

AddFileAfterPlugins == AddAfterPlugins("addFile")

(***************************************************************************)
(* DelugeConnection.connectToServer                                        *)
(***************************************************************************)
Note(kind, title) == [kind |-> kind, title |-> title]

\* frame of connectToServer(serverIndex, isValidating)
ConnectToServerFrame(serverIndex, isValidating) ==
    [Frame("connectToServer", "cached", "start") EXCEPT
        !.n = serverIndex, !.silent = isValidating]

\* a variant that drops the components before it looks up the Connection
ConnectToServerStartResets ==
    /\ AtCall("connectToServer")
    /\ LET given == IF Top.n # Undefined THEN Top.n ELSE orch.currentServerIndex
           index == IF given = Undefined THEN PrimaryServerIndex ELSE given
       IN
       /\ orch' = [currentServerIndex |-> index, isValidating |-> Top.silent]
       /\ IF ~HasConnection(index)
          THEN /\ notes' = Append(notes, Note("error", "Server not configured"))
               /\ Finish(Throws(ServerConfigError(
                      <<"No server configured at index", ToString(index)>>)))
               /\ comp' = [comp EXCEPT !["cached"] = NoComponents]
          ELSE /\ comp' = [comp EXCEPT !["cached"] =
                              [Components(TRUE, ConnectionAt(index).url,
                                          ConnectionAt(index).pass)
                                 EXCEPT !.isValidating = Top.silent]]
               /\ Await("login", <<LoginFrame("cached", ~Top.silent)>>)
               /\ UNCHANGED notes
    /\ UNCHANGED <<inflight, log, op, srv, calls, stale>>

\* a connect sequence that keeps the DaemonInfo of the one before
ConnectToServerStartKeepsDaemon ==
    /\ AtCall("connectToServer")
    /\ LET given == IF Top.n # Undefined THEN Top.n ELSE orch.currentServerIndex
           index == IF given = Undefined THEN PrimaryServerIndex ELSE given
       IN
       /\ orch' = [currentServerIndex |-> index, isValidating |-> Top.silent]
       /\ IF ~HasConnection(index)
          THEN /\ notes' = Append(notes, Note("error", "Server not configured"))
               /\ Finish(Throws(ServerConfigError(
                      <<"No server configured at index", ToString(index)>>)))
               /\ UNCHANGED comp
          ELSE /\ comp' = [comp EXCEPT !["cached"] =
                              [Components(TRUE, ConnectionAt(index).url,
                                          ConnectionAt(index).pass)
                                 EXCEPT !.isValidating = Top.silent,
                                        !.daemonInfo = comp["cached"].daemonInfo]]
               /\ Await("login", <<LoginFrame("cached", ~Top.silent)>>)
               /\ UNCHANGED notes
    /\ UNCHANGED <<inflight, log, op, srv, calls, stale>>

\* lines 60-101
ConnectToServerStart ==
    /\ AtCall("connectToServer")
    /\ LET given == IF Top.n # Undefined THEN Top.n ELSE orch.currentServerIndex
           \* initState: the primary server when no index is held
           index == IF given = Undefined THEN PrimaryServerIndex ELSE given
       IN
       /\ orch' = [currentServerIndex |-> index, isValidating |-> Top.silent]
       /\ IF ~HasConnection(index)
          THEN /\ notes' = Append(notes, Note("error", "Server not configured"))
               /\ Finish(Throws(ServerConfigError(
                      <<"No server configured at index", ToString(index)>>)))
               /\ UNCHANGED comp
          ELSE /\ comp' = [comp EXCEPT !["cached"] =
                              [Components(TRUE, ConnectionAt(index).url,
                                          ConnectionAt(index).pass)
                                 EXCEPT !.isValidating = Top.silent]]
               /\ Await("login", <<LoginFrame("cached", ~Top.silent)>>)
               /\ UNCHANGED notes
    /\ UNCHANGED <<inflight, log, op, srv, calls, stale>>

\* a catch block that notifies and does not rethrow
ConnectToServerFailedSwallowed ==
    /\ notes' = IF ~orch.isValidating
                THEN Append(notes, Note("error", "Connection failed"))
                ELSE notes
    /\ Finish(ReturnsVal(VNull))

\* lines 106-117: the catch block
ConnectToServerFailed ==
    /\ notes' = IF ~orch.isValidating
                THEN Append(notes, Note("error", "Connection failed"))
                ELSE notes
    /\ Finish(ret)

ConnectToServerAfterLogin ==
    /\ AtResume("connectToServer", "login")
    /\ IF ret.k = "throw"
       THEN ConnectToServerFailed
       ELSE /\ Await("daemon", <<Frame("connectToDaemon", "cached", "start")>>)
            /\ UNCHANGED notes
    /\ UNCHANGED <<comp, orch, inflight, log, op, srv, calls, stale>>

ConnectToServerAfterDaemon ==
    /\ AtResume("connectToServer", "daemon")
    /\ IF ret.k = "throw"
       THEN ConnectToServerFailed
       ELSE /\ Await("config", <<Frame("getServerConfig", "cached", "start")>>)
            /\ UNCHANGED notes
    /\ UNCHANGED <<comp, orch, inflight, log, op, srv, calls, stale>>

ConnectToServerAfterConfig ==
    /\ AtResume("connectToServer", "config")
    /\ IF ret.k = "throw"
       THEN ConnectToServerFailed
       ELSE /\ Finish(ReturnsVal(VNull))
            /\ UNCHANGED notes
    /\ UNCHANGED <<comp, orch, inflight, log, op, srv, calls, stale>>

(***************************************************************************)
(* DelugeConnection.addTorrent, addTorrentFile, getPluginInfo,             *)
(* validateServerAndGetPlugins                                             *)
(***************************************************************************)
\* frame of addTorrent(url, cookies, plugins, options, serverIndex) and of
\* addTorrentFile(fileData, filename, options, plugins, serverIndex)
OrchAddFrame(fn, source, plugins, serverIndex) ==
    [Frame(fn, "cached", "start") EXCEPT !.m = source, !.arg = plugins, !.n = serverIndex]

\* "Ensure we're connected", then the add call of this.torrent
OrchAddEnsureConnected(addFn) ==
    IF ~comp["cached"].exists
    THEN Finish(Throws(ServerConfigError(
             <<"Not connected to server. Call connectToServer() first.">>)))
    ELSE Await("add", <<TorrentFrame(addFn, "cached", Top.m, Top.arg)>>)

OrchAddStart(fn, addFn) ==
    /\ AtCall(fn)
    /\ IF Top.n # Undefined
       THEN Await("connected", <<ConnectToServerFrame(Top.n, FALSE)>>)
       ELSE OrchAddEnsureConnected(addFn)
    /\ UNCHANGED <<comp, orch, inflight, log, notes, op, srv, calls, stale>>

OrchAddAfterConnect(fn, addFn) ==
    /\ AtResume(fn, "connected")
    /\ IF ret.k = "throw" THEN Finish(ret) ELSE OrchAddEnsureConnected(addFn)
    /\ UNCHANGED <<comp, orch, inflight, log, notes, op, srv, calls, stale>>

\* the classification by error code alone
IsAlreadyExistsErrorByCode(e) == e.code = "ALREADY_EXISTS"

\* (error as any).code === 'ALREADY_EXISTS' || error.message.includes('already')
IsAlreadyExistsError(e) == e.code = "ALREADY_EXISTS" \/ Includes(e.msg, "already")

\* lines 145-168 and 196-219: success notification, or the catch block
OrchAddAfterAdd(fn) ==
    /\ AtResume(fn, "add")
    /\ IF ret.k = "ret"
       THEN /\ notes' = Append(notes, Note("success", "Torrent added to Deluge"))
            /\ Finish(ReturnsVal(VNull))
       ELSE IF IsAlreadyExistsError(ret.e[1])
       THEN /\ notes' = Append(notes, Note("warning", "Torrent already exists in Deluge"))
            /\ Finish(ReturnsVal(VNull))
       ELSE /\ notes' = Append(notes, Note("error", "Error adding torrent"))
            /\ Finish(ret)
    /\ UNCHANGED <<comp, orch, inflight, log, op, srv, calls, stale>>

AddTorrentStart == OrchAddStart("addTorrent", "torrentAddTorrent")
AddTorrentAfterConnect == OrchAddAfterConnect("addTorrent", "torrentAddTorrent")
AddTorrentAfterAdd == OrchAddAfterAdd("addTorrent")

AddTorrentFileStart == OrchAddStart("addTorrentFile", "addFile")
AddTorrentFileAfterConnect == OrchAddAfterConnect("addTorrentFile", "addFile")
AddTorrentFileAfterAdd == OrchAddAfterAdd("addTorrentFile")

\* getPluginInfo(silent): connectToServer(undefined, false) first
OrchGetPluginInfoStart ==
    /\ AtCall("orchGetPluginInfo")
    /\ Await("connected", <<ConnectToServerFrame(Undefined, FALSE)>>)
    /\ UNCHANGED <<comp, orch, inflight, log, notes, op, srv, calls, stale>>

OrchGetPluginInfoAfterConnect ==
    /\ AtResume("orchGetPluginInfo", "connected")
    /\ IF ret.k = "throw"
       THEN Finish(ret)
       ELSE IF ~comp["cached"].exists
       THEN Finish(Throws(ServerConfigError(<<"Plugins module not initialized">>)))
       ELSE TailCall(Frame("getPluginInfo", "cached", "start"))
    /\ UNCHANGED <<comp, orch, inflight, log, notes, op, srv, calls, stale>>

\* validation run on the orchestrator's own components
ValidateOwnerCached == "cached"

\* the component set validateServerAndGetPlugins works on: its own locals
ValidateOwner == "temp"

\* credentials under test
ValidateArgs ==
    { [url |-> <<"http://c:8112">>, pass |-> "new"],
      [url |-> <<>>, pass |-> "new"] }

\* validateServerAndGetPlugins(url, password): loc is <<password>> \o url
ValidateFrame(url, password) ==
    [Frame("validate", ValidateOwner, "start") EXCEPT !.loc = <<password>> \o url]

\* lines 257-267
ValidateStart ==
    /\ AtCall("validate")
    /\ comp' = [comp EXCEPT ![Top.own] =
                   [Components(TRUE, Tail(Top.loc), Head(Top.loc))
                      EXCEPT !.isValidating = TRUE]]
    /\ Await("login", <<LoginFrame(Top.own, TRUE)>>)
    /\ UNCHANGED <<orch, inflight, log, notes, op, srv, calls, stale>>

\* the call settles: its locals are gone
ValidateSettled ==
    /\ Finish(ret)
    /\ comp' = [comp EXCEPT !["temp"] = NoComponents]

ValidateAfterLogin ==
    /\ AtResume("validate", "login")
    /\ IF ret.k = "throw"
       THEN ValidateSettled
       ELSE /\ Await("daemon", <<Frame("connectToDaemon", Top.own, "start")>>)
            /\ UNCHANGED comp
    /\ UNCHANGED <<orch, inflight, log, notes, op, srv, calls, stale>>

ValidateAfterDaemon ==
    /\ AtResume("validate", "daemon")
    /\ IF ret.k = "throw"
       THEN ValidateSettled
       ELSE /\ Await("plugins", <<Frame("getPluginInfo", Top.own, "start")>>)
            /\ UNCHANGED comp
    /\ UNCHANGED <<orch, inflight, log, notes, op, srv, calls, stale>>

ValidateAfterPluginInfo ==
    /\ AtResume("validate", "plugins")
    /\ ValidateSettled
    /\ UNCHANGED <<orch, inflight, log, notes, op, srv, calls, stale>>

(***************************************************************************)
(* Top-level operations.                                                   *)
(***************************************************************************)
Idle == stack = <<>>
Done == stack = <<>> /\ op.name # "none"

\* a caller starts an operation once the previous one has settled
Begin(o, mode, frame) ==
    /\ Idle
    /\ op' = o
    /\ srv' = mode
    /\ stack' = <<frame>>
    /\ ret' = NoRet
    /\ log' = <<>>
    /\ notes' = <<>>
    /\ calls' = 0
    /\ stale' = 0
    /\ UNCHANGED <<comp, orch, inflight>>

InvokeConnectToServer ==
    \E idx \in ServerIndexArgs, validating \in BOOLEAN :
        Begin(Op("connectToServer", idx, validating, ""), "free",
              ConnectToServerFrame(idx, validating))

\* a direct call of the cached Requester, as getTorrentList makes
RequestArgs ==
    {[m |-> WEB_UPDATE_UI, mode |-> mode] :
        mode \in {"free", "authErr", "http403", "authAll"}}
    \cup {[m |-> CORE_ADD_TORRENT_URL, mode |-> "free"]}

InvokeRequest ==
    /\ comp["cached"].exists
    /\ \E a \in RequestArgs :
          Begin(Op("request", Undefined, FALSE, a.m), a.mode,
                RequestFrame("cached", a.m, "", FALSE, 0))

\* a direct call of the cached PluginManager
InvokeGetLabels ==
    /\ comp["cached"].exists
    /\ Begin(Op("getLabels", Undefined, FALSE, ""), "free",
             Frame("getLabels", "cached", "start"))

\* arguments of addTorrent and addTorrentFile.  Expired sessions are explored
\* by connectToServer, request, getLabels and the labelled addTorrentFile;
\* the other add operations meet a server that gives every other answer, or
\* one that has the torrent.
AddArgs(sources) ==
    {[source |-> src, plugins |-> pl, idx |-> Undefined, mode |-> mode] :
        src \in sources, pl \in {NoPlugins, "tv"}, mode \in {"plain", "already"}}
    \cup {[source |-> src, plugins |-> NoLabel, idx |-> Undefined, mode |-> "plain"] :
             src \in sources}
    \cup {[source |-> src, plugins |-> "tv", idx |-> 0, mode |-> mode] :
             src \in sources, mode \in {"plain", "already"}}
    \cup {[source |-> src, plugins |-> "tv", idx |-> Undefined, mode |-> "free"] :
             src \in sources \cap {TorrentFileName}}

InvokeAddTorrent ==
    \E a \in AddArgs(Sources) :
        Begin(Op("addTorrent", a.idx, FALSE, a.source), a.mode,
              OrchAddFrame("addTorrent", a.source, a.plugins, a.idx))

InvokeAddTorrentFile ==
    \E a \in AddArgs({TorrentFileName}) :
        Begin(Op("addTorrentFile", a.idx, FALSE, a.source), a.mode,
              OrchAddFrame("addTorrentFile", a.source, a.plugins, a.idx))

\* a direct call of the cached DaemonManager on a server that refuses remote
\* connections
InvokeGetServerConfig ==
    /\ comp["cached"].exists
    /\ Begin(Op("getServerConfig", Undefined, FALSE, ""), "denied",
             Frame("getServerConfig", "cached", "start"))

\* a direct call of the cached Authenticator
InvokeDeleteSession ==
    /\ comp["cached"].exists
    /\ Begin(Op("deleteSession", Undefined, FALSE, ""), "free",
             Frame("deleteSession", "cached", "start"))

InvokeGetPluginInfo ==
    Begin(Op("getPluginInfo", Undefined, FALSE, ""), "plain",
          Frame("orchGetPluginInfo", "cached", "start"))

InvokeValidate ==
    \E a \in ValidateArgs :
        Begin(Op("validate", Undefined, TRUE, ""), "plain",
              ValidateFrame(a.url, a.pass))

Next ==
    \/ InvokeConnectToServer
    \/ InvokeRequest
    \/ InvokeGetLabels
    \/ InvokeAddTorrent
    \/ InvokeAddTorrentFile
    \/ InvokeGetPluginInfo
    \/ InvokeDeleteSession
    \/ InvokeGetServerConfig
    \/ InvokeValidate
    \/ RequestStart
    \/ ServerRespond
    \/ RequestResponse
    \/ RequestAfterCheckSession
    \/ RequestAfterLogin
    \/ CheckSessionStart
    \/ DeleteSessionStart
    \/ DeleteSessionDone
    \/ CheckSessionDone
    \/ LoginStart
    \/ LoginAfterCheck
    \/ LoginAfterRequest
    \/ GetDaemonsStart
    \/ GetDaemonsDone
    \/ GetHostStatusStart
    \/ GetHostStatusDone
    \/ StartDaemonStart
    \/ StartDaemonDone
    \/ ConnectStart
    \/ ConnectDone
    \/ AttemptStart
    \/ AttemptAfterStatus
    \/ AttemptAfterStartDaemon
    \/ AttemptAfterConnect
    \/ ConnectToDaemonStart
    \/ ConnectToDaemonAfterHosts
    \/ ConnectToDaemonAfterAttempt
    \/ GetServerConfigStart
    \/ GetServerConfigDone
    \/ GetPluginsStart
    \/ GetPluginsDone
    \/ TryStandardLabelsStart
    \/ TryStandardLabelsDone
    \/ TryLegacyLabelsStart
    \/ TryLegacyLabelsDone
    \/ TryLabelPlusLabelsStart
    \/ TryLabelPlusLabelsDone
    \/ GetLabelsStart
    \/ GetLabelsAfterStandard
    \/ GetLabelsAfterLegacy
    \/ GetLabelsAfterLabelPlus
    \/ GetPluginInfoStart
    \/ GetPluginInfoAfterPlugins
    \/ GetPluginInfoAfterLabels
    \/ ProcessPluginOptionsStart
    \/ ProcessPluginOptionsDone
    \/ TorrentAddTorrent
    \/ AddMagnetStart
    \/ AddMagnetAfterRequest
    \/ AddMagnetAfterPlugins
    \/ AddUrlStart
    \/ AddUrlAfterRequest
    \/ AddUrlAfterRetry
    \/ AddUrlAfterPlugins
    \/ AddFileStart
    \/ AddFileAfterRequest
    \/ AddFileAfterPlugins
    \/ AddTorrentStart
    \/ AddTorrentAfterConnect
    \/ AddTorrentAfterAdd
    \/ AddTorrentFileStart
    \/ AddTorrentFileAfterConnect
    \/ AddTorrentFileAfterAdd
    \/ OrchGetPluginInfoStart
    \/ OrchGetPluginInfoAfterConnect
    \/ ValidateStart
    \/ ValidateAfterLogin
    \/ ValidateAfterDaemon
    \/ ValidateAfterPluginInfo
    \/ ConnectToServerStart
    \/ ConnectToServerAfterLogin
    \/ ConnectToServerAfterDaemon
    \/ ConnectToServerAfterConfig

Spec == Init /\ [][Next]_vars

(***************************************************************************)
(* buildTorrentOptions on its own: one call for every TorrentOptions value. *)
(***************************************************************************)
InitOptions ==
    /\ comp = [o \in Owners |-> NoComponents]
    /\ orch = [currentServerIndex |-> 0, isValidating |-> FALSE]
    /\ \E o \in OptionInputs :
          /\ stack = <<BuildTorrentOptionsFrame(o)>>
          /\ op = Op("buildTorrentOptions", Undefined, FALSE, o)
    /\ ret = NoRet
    /\ inflight = NoResponse
    /\ log = <<>>
    /\ notes = <<>>
    /\ srv = "plain"
    /\ calls = 0
    /\ stale = 0

NextOptions == BuildTorrentOptionsCall

SpecOptions == InitOptions /\ [][NextOptions]_vars

(***************************************************************************)
(* Two request() calls of one Requester that run interleaved.              *)
(*                                                                         *)
(* The stack holds the frames of the call that waits, a "pair" frame, and  *)
(* the frames of the call that runs.  The pair frame keeps, for the call   *)
(* that waits, its method (m), the number of HTTP calls it has sent (n)    *)
(* and, once it has settled, its outcome (loc, err); arg is the method of  *)
(* the call that runs.  calls counts the HTTP calls of the call that runs. *)
(* The server answers every method but the auth methods with an            *)
(* auth-classified error, so that both calls re-login and retry.           *)
(***************************************************************************)
PairMethods == <<WEB_UPDATE_UI, CORE_GET_CONFIG>>

PairFrame(waiting, running) ==
    [Frame("pair", "cached", "wait") EXCEPT !.m = waiting, !.arg = running]

\* the session the Requester holds when the two calls are made
PairSessions == {NoHeaders, [cookie |-> SessionCookie1, csrf |-> "t1"]}

InitPair ==
    /\ \E h \in PairSessions :
          comp = [o \in Owners |->
                    IF o = "cached"
                    THEN [Components(TRUE, ConnectionAt(0).url, ConnectionAt(0).pass)
                            EXCEPT !.sessionCookie = h.cookie,
                                   !.sessionId = SessionIdOf(h.cookie),
                                   !.csrfToken = h.csrf]
                    ELSE NoComponents]
    /\ orch = [currentServerIndex |-> 0, isValidating |-> FALSE]
    /\ stack = <<RequestFrame("cached", PairMethods[1], "", FALSE, 0),
                 PairFrame(PairMethods[1], PairMethods[2]),
                 RequestFrame("cached", PairMethods[2], "", FALSE, 0)>>
    /\ op = Op("requestPair", Undefined, FALSE, "")
    /\ ret = NoRet
    /\ inflight = NoResponse
    /\ log = <<>>
    /\ notes = <<>>
    /\ srv = "authErr"
    /\ calls = 0
    /\ stale = 0

\* the place of the pair frame in the stack
PairAt == CHOOSE i \in DOMAIN stack : stack[i].fn = "pair"

\* the call that runs awaits its fetch, or has settled, and the other call
\* goes on: it starts, or the answer to its fetch has come
PairSwitch ==
    /\ stack # <<>>
    /\ \E i \in DOMAIN stack : stack[i].fn = "pair"
    /\ PairAt > 1
    /\ inflight.net = "none"
    /\ Running("request", "fetch") \/ Top.fn = "pair"
    /\ LET mk == stack[PairAt]
           waiting == SubSeq(stack, 1, PairAt - 1)
           running == SubSeq(stack, PairAt + 1, Len(stack))
           settled == running = <<>>
       IN /\ stack' = running
                       \o <<[mk EXCEPT !.m = mk.arg, !.arg = mk.m, !.n = calls,
                                       !.loc = IF settled THEN <<ret.k>> ELSE <<>>,
                                       !.err = IF settled THEN ret.e ELSE <<>>]>>
                       \o waiting
          /\ calls' = mk.n
    /\ ret' = NoRet
    /\ UNCHANGED <<comp, orch, inflight, log, notes, op, srv, stale>>

\* both calls have settled
PairSettle ==
    /\ stack # <<>>
    /\ Len(stack) = 1
    /\ Top.fn = "pair"
    /\ stack' = <<>>
    /\ UNCHANGED <<comp, orch, ret, inflight, log, notes, op, srv, calls, stale>>

NextPair ==
    \/ RequestStart
    \/ ServerRespond
    \/ RequestResponse
    \/ RequestAfterLogin
    \/ CheckSessionStart
    \/ CheckSessionDone
    \/ LoginStart
    \/ LoginAfterCheck
    \/ LoginAfterRequest
    \/ PairSwitch
    \/ PairSettle

SpecPair == InitPair /\ [][NextPair]_vars

(***************************************************************************)
(* Two addTorrent calls of one DelugeConnection that run interleaved, each *)
(* with a server index of its own.                                         *)
(*                                                                         *)
(* connectToServer is taken in its two steps, before and after             *)
(* await this.initState().  Control passes from one call to the other     *)
(* while the running call awaits initState, or when it has settled; the    *)
(* stack is laid out as for the interleaved request() calls.               *)
(***************************************************************************)
\* lines 60-66: the index and the mode are stored, initState is awaited
ConnectToServerEnter ==
    /\ AtCall("connectToServer")
    /\ orch' = [currentServerIndex |->
                   IF Top.n # Undefined THEN Top.n ELSE orch.currentServerIndex,
                isValidating |-> Top.silent]
    /\ Await("init", <<>>)
    /\ UNCHANGED <<comp, inflight, log, notes, op, srv, calls, stale>>

\* lines 43-45 and 69-101: initState has come back; the Connection is looked
\* up at this.currentServerIndex and the modules are built for it
ConnectToServerInit ==
    /\ Running("connectToServer", "init")
    /\ ret.k = "none"
    /\ LET index == IF orch.currentServerIndex = Undefined
                    THEN PrimaryServerIndex ELSE orch.currentServerIndex
       IN
       /\ orch' = [orch EXCEPT !.currentServerIndex = index]
       /\ IF ~HasConnection(index)
          THEN /\ notes' = Append(notes, Note("error", "Server not configured"))
               /\ Finish(Throws(ServerConfigError(
                      <<"No server configured at index", ToString(index)>>)))
               /\ UNCHANGED comp
          ELSE /\ comp' = [comp EXCEPT !["cached"] =
                              [Components(TRUE, ConnectionAt(index).url,
                                          ConnectionAt(index).pass)
                                 EXCEPT !.isValidating = orch.isValidating]]
               /\ Await("login", <<LoginFrame("cached", ~orch.isValidating)>>)
               /\ UNCHANGED notes
    /\ UNCHANGED <<inflight, log, op, srv, calls, stale>>

\* the server indices of the two calls
RaceIndices == {0, 1}

InitRace ==
    /\ comp = [o \in Owners |-> NoComponents]
    /\ orch = [currentServerIndex |-> 0, isValidating |-> FALSE]
    /\ \E i, j \in RaceIndices :
          /\ stack = <<OrchAddFrame("addTorrent", TorrentUrl, NoPlugins, j),
                       PairFrame("addTorrent", "addTorrent"),
                       OrchAddFrame("addTorrent", TorrentUrl, NoPlugins, i)>>
          /\ op = Op("addTorrentPair", i, FALSE, TorrentUrl)
    /\ ret = NoRet
    /\ inflight = NoResponse
    /\ log = <<>>
    /\ notes = <<>>
    /\ srv = "steady"
    /\ calls = 0
    /\ stale = 0

\* the call that runs awaits initState, or has settled, and the other call
\* goes on
RaceSwitch ==
    /\ stack # <<>>
    /\ \E i \in DOMAIN stack : stack[i].fn = "pair"
    /\ PairAt > 1
    /\ inflight.net = "none"
    /\ (Running("connectToServer", "init") /\ ret.k = "none") \/ Top.fn = "pair"
    /\ LET mk == stack[PairAt]
           waiting == SubSeq(stack, 1, PairAt - 1)
           running == SubSeq(stack, PairAt + 1, Len(stack))
           settled == running = <<>>
       IN /\ stack' = running
                       \o <<[mk EXCEPT !.n = calls,
                                       !.loc = IF settled THEN <<ret.k>> ELSE <<>>,
                                       !.err = IF settled THEN ret.e ELSE <<>>]>>
                       \o waiting
          /\ calls' = mk.n
    /\ ret' = NoRet
    /\ UNCHANGED <<comp, orch, inflight, log, notes, op, srv, stale>>

NextRace ==
    \/ AddTorrentStart
    \/ AddTorrentAfterConnect
    \/ AddTorrentAfterAdd
    \/ ConnectToServerEnter
    \/ ConnectToServerInit
    \/ ConnectToServerAfterLogin
    \/ ConnectToServerAfterDaemon
    \/ ConnectToServerAfterConfig
    \/ RequestStart
    \/ ServerRespond
    \/ RequestResponse
    \/ CheckSessionStart
    \/ CheckSessionDone
    \/ LoginStart
    \/ LoginAfterCheck
    \/ GetDaemonsStart
    \/ GetDaemonsDone
    \/ GetHostStatusStart
    \/ GetHostStatusDone
    \/ StartDaemonStart
    \/ StartDaemonDone
    \/ ConnectStart
    \/ ConnectDone
    \/ AttemptStart
    \/ AttemptAfterStatus
    \/ AttemptAfterStartDaemon
    \/ AttemptAfterConnect
    \/ ConnectToDaemonStart
    \/ ConnectToDaemonAfterHosts
    \/ ConnectToDaemonAfterAttempt
    \/ GetServerConfigStart
    \/ GetServerConfigDone
    \/ TorrentAddTorrent
    \/ AddUrlStart
    \/ AddUrlAfterRequest
    \/ RaceSwitch
    \/ PairSettle

SpecRace == InitRace /\ [][NextRace]_vars

(***************************************************************************)
(* background.ts: fetchWithRetry, the download of an intercepted torrent   *)
(* file.  A frame keeps the retries left in n and the delay in loc; the    *)
(* log holds one entry for every fetch() made.                             *)
(***************************************************************************)
\* the largest retries argument explored
MaxFetchRetries == 3
\* delay = 1000
DefaultDelay == 1000

DownloadUrl == <<"http://tracker/file.torrent">>

FetchFrame(url, retries, delay) ==
    [Frame("fetchWithRetry", "background", "start")
        EXCEPT !.m = url, !.n = retries, !.loc = <<delay>>]

\* what fetch() and the reading of the body come to: a file, a response
\* whose body cannot be read, HTTP 429, 404 and 500, a rejected fetch
FetchOutcomes ==
    {Response("ok", 200, ResultPayload(Val("bytes", <<>>)), NoStr, NoStr),
     Response("ok", 200, ErrorPayload(<<"body stream">>), NoStr, NoStr),
     Response("ok", 429, NullPayload, NoStr, NoStr),
     Response("ok", 404, NullPayload, NoStr, NoStr),
     Response("ok", 500, NullPayload, NoStr, NoStr),
     Response("fail", 0, NullPayload, NoStr, NoStr)}

InitFetch ==
    /\ comp = [o \in Owners |-> NoComponents]
    /\ orch = [currentServerIndex |-> 0, isValidating |-> FALSE]
    /\ \E r \in 0..MaxFetchRetries :
          /\ stack = <<FetchFrame(DownloadUrl, r, DefaultDelay)>>
          /\ op = Op("fetchWithRetry", r, FALSE, DownloadUrl)
    /\ ret = NoRet
    /\ inflight = NoResponse
    /\ log = <<>>
    /\ notes = <<>>
    /\ srv = "free"
    /\ calls = 0
    /\ stale = 0

\* line 195: fetch(url, options)
FetchWithRetryStart ==
    /\ AtCall("fetchWithRetry")
    /\ log' = Append(log, LogEntry(Top, Top.m, stack, Len(log) + 1))
    /\ Await("fetch", <<>>)
    /\ UNCHANGED <<comp, orch, inflight, notes, op, srv, calls, stale>>

\* the remote host answers, or the fetch fails
FetchRespond ==
    /\ Running("fetchWithRetry", "fetch")
    /\ inflight = NoResponse
    /\ inflight' \in FetchOutcomes
    /\ UNCHANGED <<comp, orch, stack, ret, log, notes, op, srv, calls, stale>>

\* lines 212-219: the catch block
FetchWithRetryCatch(e) ==
    IF Top.n > 0 THEN Await("delay", <<>>) ELSE Finish(Throws(e))

\* lines 197-219: the response is handled.  The promises returned in lines
\* 201 and 211 are not awaited inside the try block: their rejection is the
\* call's rejection and does not reach the catch block.
FetchWithRetryResponse ==
    /\ Running("fetchWithRetry", "fetch")
    /\ inflight # NoResponse
    /\ inflight' = NoResponse
    /\ IF inflight.net # "ok"
       THEN FetchWithRetryCatch(Err("TypeError", <<"Failed to fetch">>, "", 0, <<>>))
       ELSE IF inflight.status = 429 /\ Top.n > 0
       THEN Await("delay", <<>>)
       ELSE IF inflight.status \notin 200..299
       THEN FetchWithRetryCatch(PlainError(<<"HTTP", ToString(inflight.status)>>))
       ELSE IF inflight.payload.kind = "error"
       THEN Finish(Throws(Err("TypeError", inflight.payload.msg, "", 0, <<>>)))
       ELSE Finish(Returns(inflight.payload))
    /\ UNCHANGED <<comp, orch, log, notes, op, srv, calls, stale>>

\* lines 200-201 and 215-216: after the delay, the call with one retry less
\* and twice the delay
FetchWithRetryAfterDelayKeepsRetries ==
    /\ Running("fetchWithRetry", "delay")
    /\ TailCall(FetchFrame(Top.m, Top.n, Top.loc[1] * 2))
    /\ UNCHANGED <<comp, orch, inflight, log, notes, op, srv, calls, stale>>

FetchWithRetryAfterDelay ==
    /\ Running("fetchWithRetry", "delay")
    /\ TailCall(FetchFrame(Top.m, Top.n - 1, Top.loc[1] * 2))
    /\ UNCHANGED <<comp, orch, inflight, log, notes, op, srv, calls, stale>>

NextFetch ==
    \/ FetchWithRetryStart
    \/ FetchRespond
    \/ FetchWithRetryResponse
    \/ FetchWithRetryAfterDelay

SpecFetch == InitFetch /\ [][NextFetch]_vars

(***************************************************************************)
(* The session store of one DelugeAuth over a series of responses and      *)
(* session clears.  calls counts the responses taken.                      *)
(***************************************************************************)
\* Set-Cookie / X-CSRF-Token headers of a response to the store
SessionHeaders ==
    {[cookie |-> k, csrf |-> t] :
        k \in {NoStr, SessionCookie1, SessionCookie2, ProxyCookie},
        t \in {NoStr, "t1", "t2"}}

InitSession ==
    /\ comp = [o \in Owners |->
                 IF o = "cached"
                 THEN Components(TRUE, ConnectionAt(0).url, ConnectionAt(0).pass)
                 ELSE NoComponents]
    /\ orch = [currentServerIndex |-> 0, isValidating |-> FALSE]
    /\ stack = <<>>
    /\ ret = NoRet
    /\ inflight = NoResponse
    /\ log = <<>>
    /\ notes = <<>>
    /\ op = Op("session", Undefined, FALSE, "")
    /\ srv = "free"
    /\ calls = 0
    /\ stale = 0

\* a response arrives: any status, any headers
SessionRespond ==
    /\ op.name = "session"
    /\ inflight = NoResponse
    /\ calls < MaxCalls
    /\ calls' = calls + 1
    /\ \E h \in SessionHeaders, st \in {200, 403} : inflight' = HttpError(st, h)
    /\ UNCHANGED <<comp, orch, stack, ret, log, notes, op, srv, stale>>

\* DelugeRequest.ts:90: this.extractSessionData(response)
SessionExtract ==
    /\ op.name = "session"
    /\ inflight # NoResponse
    /\ comp' = [comp EXCEPT !["cached"] = extractSessionData(@, inflight)]
    /\ inflight' = NoResponse
    /\ UNCHANGED <<orch, stack, ret, log, notes, op, srv, calls, stale>>

\* DelugeAuth.clearSession, as login and deleteSession call it
SessionClear ==
    /\ op.name = "session"
    /\ inflight = NoResponse
    /\ comp["cached"] # clearSession(comp["cached"])
    /\ comp' = [comp EXCEPT !["cached"] = clearSession(@)]
    /\ UNCHANGED <<orch, stack, ret, inflight, log, notes, op, srv, calls, stale>>

NextSession == SessionRespond \/ SessionExtract \/ SessionClear

SpecSession == InitSession /\ [][NextSession]_vars

(***************************************************************************)
(* PopupController and the refresh intervals of the popup window.          *)
(*                                                                         *)
(* In this specification orch holds the fields of the controller and of    *)
(* its PopupUI: servers (the number of Connections loaded),                *)
(* activeServerIndex and refreshTimers (pairs <<server index, timer id>>). *)
(* srv is the window's table of intervals that run: records of a timer id  *)
(* and the server index its callback has captured.  stack holds the        *)
(* callbacks of 'storage-get-connections' messages that wait for their     *)
(* response, calls counts the timer ids handed out, and log holds the      *)
(* 'torrent-list' messages sent.                                           *)
(***************************************************************************)
\* interval callbacks explored in one run
MaxTicks == 1
\* intervals started in one run
MaxTimers == 4

\* the answers to 'storage-get-connections': no array, or one of 0..2
\* Connections (the number of Connections is kept)
ConnectionCounts == 0..2

PopupState(servers, active, timers) ==
    [servers |-> servers, activeServerIndex |-> active, refreshTimers |-> timers]

Interval(id, index) == [id |-> id, index |-> index]

InitPopup ==
    /\ comp = [o \in Owners |-> NoComponents]
    /\ orch = PopupState(0, 0, {})
    /\ stack = <<>>
    /\ ret = NoRet
    /\ inflight = NoResponse
    /\ log = <<>>
    /\ notes = <<>>
    /\ op = Op("popup", Undefined, FALSE, "")
    /\ srv = {}
    /\ calls = 0
    /\ stale = 0

\* the 'torrent-list' message of fetchTorrentData (lines 139-163): nothing
\* is sent when no server is at the index
TorrentListMessages(servers, index, step) ==
    IF index < servers
    THEN <<[m |-> "torrent-list", arg |-> "", own |-> "popup", url |-> <<>>,
            step |-> step, id |-> index]>>
    ELSE <<>>

\* lines 36-39, 55-62: the communicator reports a connection; loadServerInfo
\* sends 'storage-get-connections'
PopupConnected ==
    /\ op.name = "popup"
    /\ calls + Len(stack) < MaxTimers
    /\ stack' = Append(stack, Frame("loadServerInfo", "popup", "response"))
    /\ UNCHANGED <<comp, orch, ret, inflight, log, notes, op, srv, calls, stale>>

\* lines 126-134 stopAllRefreshTimers: the intervals left in the table
StopAllRefreshTimers == {t \in srv : \A p \in orch.refreshTimers : p[2] # t.id}

\* lines 101-121 startActiveServerRefresh on `servers` Connections with
\* the active index, the refresh timers and the intervals given
StartActiveServerRefresh(servers, activeIndex, timers, intervals) ==
    LET timerId == calls + 1
    IN IF activeIndex >= servers
       THEN /\ orch' = PopupState(servers, activeIndex, timers)
            /\ srv' = intervals
            /\ UNCHANGED <<log, calls>>
       ELSE /\ log' = log \o TorrentListMessages(servers, activeIndex, "start")
            /\ srv' = intervals \cup {Interval(timerId, activeIndex)}
            /\ calls' = timerId
            /\ orch' = PopupState(servers, activeIndex,
                          {p \in timers : p[1] # activeIndex}
                          \cup {<<activeIndex, timerId>>})

\* lines 62-81: the response to 'storage-get-connections'
LoadServerInfoResponse ==
    /\ op.name = "popup"
    /\ Running("loadServerInfo", "response")
    /\ stack' = Rest
    /\ \E n \in ConnectionCounts :
          IF n > 0
          THEN StartActiveServerRefresh(n, orch.activeServerIndex,
                                        orch.refreshTimers, srv)
          ELSE /\ orch' = [orch EXCEPT !.servers = 0]
               /\ UNCHANGED <<log, srv, calls>>
    /\ UNCHANGED <<comp, ret, inflight, notes, op, stale>>

\* popup.ts 273-279 and lines 88-96: a click on the tab of a server
OnServerSwitch ==
    /\ op.name = "popup"
    /\ calls < MaxTimers
    /\ \E index \in 0..(orch.servers - 1) :
          StartActiveServerRefresh(orch.servers, index, {}, StopAllRefreshTimers)
    /\ UNCHANGED <<comp, stack, ret, inflight, notes, op, stale>>

\* lines 116-118: the callback of an interval that runs
RefreshIntervalFires ==
    /\ op.name = "popup"
    /\ Cardinality({i \in DOMAIN log : log[i].step = "interval"}) < MaxTicks
    /\ \E t \in srv :
          log' = log \o TorrentListMessages(orch.servers, t.index, "interval")
    /\ UNCHANGED <<comp, orch, stack, ret, inflight, notes, op, srv, calls, stale>>

\* lines 45-47, 168-172: the window unloads
PopupCleanup ==
    /\ op.name = "popup"
    /\ op' = [op EXCEPT !.name = "unloaded"]
    /\ srv' = StopAllRefreshTimers
    /\ orch' = [orch EXCEPT !.refreshTimers = {}]
    /\ stack' = <<>>
    /\ UNCHANGED <<comp, ret, inflight, log, notes, calls, stale>>

NextPopup ==
    \/ PopupConnected
    \/ LoadServerInfoResponse
    \/ OnServerSwitch
    \/ RefreshIntervalFires
    \/ PopupCleanup

SpecPopup == InitPopup /\ [][NextPopup]_vars

(***************************************************************************)
(* SafeMessenger and its communicator.                                     *)
(*                                                                         *)
(* In this specification orch holds the fields of the SafeMessenger:       *)
(* messageQueue, isReconnecting and reconnectTimer (whether an id is       *)
(* kept).  srv is the environment: the communicator's _Connected flag and  *)
(* the callback of the window timer that waits, if any.  stack holds the   *)
(* error callbacks of sendMessage calls that have not run yet.             *)
(***************************************************************************)
\* NETWORK.MAX_MESSAGE_QUEUE_SIZE
MAX_MESSAGE_QUEUE_SIZE == 100
\* error callbacks of sendMessage that wait at one time
MaxPending == 1

\* a queue entry {message, callback}
QueuedMessage == "message"

Messenger(queue, reconnecting, timer) ==
    [messageQueue |-> queue, isReconnecting |-> reconnecting, reconnectTimer |-> timer]
\* timer: "none", "attemptReconnection" or "reconnect"
Communicator(connected, timer) == [Connected |-> connected, timer |-> timer]
\* a SafeMessenger together with its communicator
Both(o, c) == [o |-> o, c |-> c]

InitMessenger ==
    /\ comp = [o \in Owners |-> NoComponents]
    /\ orch = Messenger(<<>>, FALSE, FALSE)
    /\ stack = <<>>
    /\ ret = NoRet
    /\ inflight = NoResponse
    /\ log = <<>>
    /\ notes = <<>>
    /\ op = Op("messenger", Undefined, FALSE, "")
    /\ srv \in {Communicator(b, "none") : b \in BOOLEAN}
    /\ calls = 0
    /\ stale = 0

\* a queue that takes every message
enqueueMessageUnbounded(queue) == Append(queue, QueuedMessage)

\* lines 83-94 enqueueMessage
enqueueMessage(queue) ==
    IF Len(queue) >= MAX_MESSAGE_QUEUE_SIZE THEN queue
    ELSE Append(queue, QueuedMessage)

\* lines 124-145 reconnect
reconnect(b) ==
    IF b.o.isReconnecting THEN b
    ELSE Both(Messenger(b.o.messageQueue, TRUE, TRUE),
              Communicator(FALSE, "attemptReconnection"))

\* enqueueMessage(message, callback); if (!this.isReconnecting) this.reconnect()
EnqueueAndReconnect(b) ==
    reconnect(Both([b.o EXCEPT !.messageQueue = enqueueMessage(@)], b.c))

\* lines 99-119 processMessageQueue: the queues it can leave, all messages
\* sent or a sendMessage that threw and its message put back
processMessageQueue(queue) ==
    {SubSeq(queue, k + 1, Len(queue)) : k \in 0..Len(queue)}

\* lines 27-78 send: the message is queued, sent, or its sendMessage fails
\* at once (throws) or later (error callback)
MessengerSend ==
    /\ op.name = "messenger"
    /\ LET now == Both(orch, srv)
           \* lines 45-48: the oldest message is dropped from a full queue
           room == Both([orch EXCEPT !.messageQueue =
                            IF Len(@) >= MAX_MESSAGE_QUEUE_SIZE THEN Tail(@) ELSE @],
                        srv)
       IN IF ~srv.Connected
          THEN /\ orch' = EnqueueAndReconnect(now).o
               /\ srv' = EnqueueAndReconnect(now).c
               /\ UNCHANGED stack
          ELSE \/ /\ orch' = room.o
                  /\ UNCHANGED <<srv, stack>>
               \/ /\ orch' = EnqueueAndReconnect(room).o
                  /\ srv' = EnqueueAndReconnect(room).c
                  /\ UNCHANGED stack
               \/ /\ Len(stack) < MaxPending
                  /\ orch' = room.o
                  /\ stack' = Append(stack, Frame("sendMessage", "messenger", "error"))
                  /\ UNCHANGED srv
    /\ UNCHANGED <<comp, ret, inflight, log, notes, op, calls, stale>>

\* lines 61-68: the error callback of a sendMessage
SendMessageFailed ==
    /\ op.name = "messenger"
    /\ Running("sendMessage", "error")
    /\ stack' = Rest
    /\ orch' = EnqueueAndReconnect(Both(orch, srv)).o
    /\ srv' = EnqueueAndReconnect(Both(orch, srv)).c
    /\ UNCHANGED <<comp, ret, inflight, log, notes, op, calls, stale>>

\* lines 142-144, 150-174: the timer of reconnect runs attemptReconnection;
\* communicator.init connects or does not
AttemptReconnection ==
    /\ op.name = "messenger"
    /\ srv.timer = "attemptReconnection"
    /\ \/ \E queue \in processMessageQueue(orch.messageQueue) :
             /\ orch' = Messenger(queue, FALSE, orch.reconnectTimer)
             /\ srv' = Communicator(TRUE, "none")
       \/ /\ orch' = Messenger(orch.messageQueue, FALSE, TRUE)
          /\ srv' = Communicator(FALSE, "reconnect")
    /\ UNCHANGED <<comp, stack, ret, inflight, log, notes, op, calls, stale>>

\* lines 170-172: the timer of attemptReconnection runs reconnect
ReconnectTimerFires ==
    /\ op.name = "messenger"
    /\ srv.timer = "reconnect"
    /\ LET b == reconnect(Both(orch, [srv EXCEPT !.timer = "none"]))
       IN orch' = b.o /\ srv' = b.c
    /\ UNCHANGED <<comp, stack, ret, inflight, log, notes, op, calls, stale>>

\* the port of the communicator connects or disconnects by itself
CommunicatorChanges ==
    /\ op.name = "messenger"
    /\ srv' = [srv EXCEPT !.Connected = ~@]
    /\ UNCHANGED <<comp, orch, stack, ret, inflight, log, notes, op, calls, stale>>

\* lines 179-186 stopReconnecting
StopReconnecting ==
    /\ op.name = "messenger"
    /\ orch.isReconnecting \/ orch.reconnectTimer
    /\ orch' = Messenger(orch.messageQueue, FALSE, FALSE)
    /\ srv' = [srv EXCEPT !.timer = IF orch.reconnectTimer THEN "none" ELSE @]
    /\ UNCHANGED <<comp, stack, ret, inflight, log, notes, op, calls, stale>>

\* lines 198-201 clearQueue
ClearQueue ==
    /\ op.name = "messenger"
    /\ orch.messageQueue # <<>>
    /\ orch' = [orch EXCEPT !.messageQueue = <<>>]
    /\ UNCHANGED <<comp, stack, ret, inflight, log, notes, op, srv, calls, stale>>

NextMessenger ==
    \/ MessengerSend
    \/ SendMessageFailed
    \/ AttemptReconnection
    \/ ReconnectTimerFires
    \/ CommunicatorChanges
    \/ StopReconnecting
    \/ ClearQueue

SpecMessenger == InitMessenger /\ [][NextMessenger]_vars

(***************************************************************************)
(* Observations used by the properties.                                    *)
(***************************************************************************)
\* HTTP calls of the current operation that carry method m
Sends(m) == Cardinality({i \in DOMAIN log : log[i].m = m})

\* re-logins in progress: request() calls suspended in await this.auth.login
ReloginDepth == Cardinality({i \in DOMAIN stack :
                                stack[i].fn = "request" /\ stack[i].pc = "relogin"})

\* the outcome of the settled operation
Rejected == Done /\ ret.k = "throw"
Resolved == Done /\ ret.k = "ret"
RejectedWith(type) == Rejected /\ ret.e[1].type = type

\* position of a step in the connection sequence
StepRank(step) ==
    CASE step = "login" -> 1
      [] step = "connectToDaemon" -> 2
      [] step = "getServerConfig" -> 3
      [] OTHER -> 4

(***************************************************************************)
(* Requester.request: retry bounds.                                        *)
(***************************************************************************)
AuthErrRequest == op.name = "request" /\ srv = "authErr"

C2_Http403RetriedOnce ==
    (op.name = "request" /\ srv = "http403") =>
        /\ Sends(op.m) <= 2
        /\ Done => (RejectedWith("NetworkError") /\ ret.e[1].status = 403)

\* C3: when every RPC, auth.check_session and auth.login included, is
\* answered with an auth-classified error, the re-login request() triggers
\* does not start a re-login of its own: at most one re-login is in progress.
C3_ReloginDoesNotNest ==
    (op.name = "request" /\ srv = "authAll") => ReloginDepth <= 1

(***************************************************************************)
(* connectToServer: the connection sequence.                               *)
(***************************************************************************)
\* C4: the HTTP calls of one connectToServer call are issued step by step in
\* the order login, connectToDaemon, getServerConfig, and when
\* connectToServer resumes with an exception from a step it settles at once
\* with that very exception, issuing no further call.
C4_StepsInOrder ==
    /\ [](\A i, j \in DOMAIN log :
            i < j => StepRank(log[i].step) <= StepRank(log[j].step))
    /\ [][(stack # <<>> /\ Top.fn = "connectToServer" /\ ret.k = "throw")
            => (stack' = Rest /\ ret' = ret /\ log' = log)]_vars

\* the daemon step failed after calls of its own and no config call followed
C4_Witness ==
    /\ op.name = "connectToServer"
    /\ Rejected
    /\ ret.e[1].type = "DaemonError"
    /\ log # <<>>
    /\ log[Len(log)].step = "connectToDaemon"

(***************************************************************************)
(* connectToDaemon: the host loop.                                         *)
(***************************************************************************)
FailedAnyDaemon == <<"Failed to connect to any daemon">>

\* C5: when the attempt for a host throws and hosts are left, the next host
\* of the list is attempted; DaemonError 'Failed to connect to any daemon' is
\* thrown only after the last host failed, it wraps the error of that last
\* attempt, and by then the status of every host of the list was requested.
C5_NextHostAfterFailure ==
    /\ [][(Running("connectToDaemon", "attempt") /\ ret.k = "throw")
            => IF Top.n < Len(Top.loc)
               THEN /\ Len(stack') = Len(stack) + 1
                    /\ stack'[Len(stack')].fn = "attemptDaemonConnection"
                    /\ stack'[Len(stack')].arg = Top.loc[Top.n + 1]
                    /\ ret'.k = "none"
               ELSE /\ stack' = Rest
                    /\ ret'.k = "throw"
                    /\ ret'.e[1].type = "DaemonError"
                    /\ ret'.e[1].msg = FailedAnyDaemon
                    /\ ret'.e[1].cause = ret.e]_vars
    /\ []((ret.k = "throw" /\ ret.e[1].msg = FailedAnyDaemon) =>
            \A hosts \in HostLists : \A k \in DOMAIN hosts :
                \E i \in DOMAIN log :
                    log[i].m = WEB_GET_HOST_STATUS /\ log[i].arg = hosts[k])

\* web.start_daemon failed on the first host and the status of the second
\* was then requested
C5_Witness ==
    \E i \in DOMAIN stack :
        /\ stack[i].fn = "connectToDaemon"
        /\ stack[i].n = 2
        /\ stack[i].err # <<>>
        /\ stack[i].err[1].msg = <<"Failed to start daemon">>
        /\ \E j \in DOMAIN log :
              log[j].m = WEB_GET_HOST_STATUS /\ log[j].arg = stack[i].loc[2]

(***************************************************************************)
(* getLabels: the three strategies.                                        *)
(***************************************************************************)
\* position of a label RPC in the fallback order
StrategyRank(m) ==
    CASE m = LABEL_GET_LABELS -> 1
      [] m = LABEL_GET_CONFIG -> 2
      [] m = LABELPLUS_GET_LABELS -> 3
      [] OTHER -> 0

LabelCalls == {i \in DOMAIN log : StrategyRank(log[i].m) > 0}

\* the strategy getLabels starts after the one awaited at pc
NextStrategy(pc) ==
    CASE pc = "standard" -> "tryLegacyLabels"
      [] pc = "legacy" -> "tryLabelPlusLabels"
      [] OTHER -> "none"

\* C6: the label RPCs of an operation appear in the order label.get_labels,
\* label.get_config, labelplus.get_labels; when a strategy comes back with a
\* non-empty list getLabels returns that list and starts nothing more; when
\* it throws or comes back empty getLabels starts the next strategy, and
\* after the last one returns the empty list; getLabels never throws.
C6_LabelFallbackOrder ==
    /\ [](\A i, j \in LabelCalls :
            i < j => StrategyRank(log[i].m) <= StrategyRank(log[j].m))
    /\ [][(stack # <<>> /\ Top.fn = "getLabels" /\ ret.k # "none")
            => IF ret.k = "ret" /\ ret.p.res.s # <<>>
               THEN stack' = Rest /\ ret' = ret
               ELSE IF NextStrategy(Top.pc) # "none"
               THEN /\ Len(stack') = Len(stack) + 1
                    /\ stack'[Len(stack')].fn = NextStrategy(Top.pc)
                    /\ ret'.k = "none"
               ELSE stack' = Rest /\ ret' = ReturnsVal(VList(<<>>))]_vars
    /\ []((op.name = "getLabels" /\ Done) => (ret.k = "ret" /\ ret.p.res.t = "list"))

\* all three strategies were tried, the last one threw, and getLabels
\* returned the empty list
C6_Witness ==
    /\ op.name = "getLabels"
    /\ Resolved
    /\ ret.p.res = VList(<<>>)
    /\ \A r \in 1..3 : \E i \in LabelCalls : StrategyRank(log[i].m) = r
    /\ inflight = NoResponse
    /\ \E i \in DOMAIN log : log[i].m = LABELPLUS_GET_LABELS /\ i = Len(log)

(***************************************************************************)
(* "already in session".                                                   *)
(***************************************************************************)
AlreadyNote == Note("warning", "Torrent already exists in Deluge")

\* the add RPC of the operation was sent
AddRpcSent == \E i \in DOMAIN log : log[i].m \in AddMethods

\* C7: when addTorrent (magnet or URL) or addTorrentFile of the orchestrator
\* reaches a server that answers the add RPC with 'already in session', the
\* call resolves and the only notification it shows is the warning.
C7_AlreadyExistsIsWarning ==
    (op.name \in {"addTorrent", "addTorrentFile"} /\ srv = "already"
        /\ Done /\ AddRpcSent)
    => (ret.k = "ret" /\ notes = <<AlreadyNote>>)

\* a magnet link submitted to a server that already has the torrent
C7_Witness ==
    /\ op.name = "addTorrent" /\ op.m = MagnetUri /\ srv = "already"
    /\ Resolved
    /\ AddRpcSent
    /\ notes = <<AlreadyNote>>

\* C8: when request() hands addUrl an error payload whose message contains
\* 'already in session', addUrl does not throw.
C8_AddUrlAlreadyResolves ==
    [][(stack # <<>> /\ Top.fn = "addUrl" /\ Top.pc = "sent" /\ ret.k = "ret"
          /\ ret.p.kind = "error" /\ Includes(ret.p.msg, "already in session"))
         => ret'.k # "throw"]_vars

\* C9: when the response to a call carries an error whose message contains
\* 'already in session', request() returns that payload: it does not throw,
\* the session fields are those the response headers set (none is cleared),
\* no login or retry is started and no further call is issued.
C9_AlreadyInSessionReturned ==
    [][(Running("request", "fetch") /\ inflight.net = "ok" /\ inflight.status = 200
          /\ inflight.payload.kind = "error"
          /\ Includes(inflight.payload.msg, "already in session"))
         => /\ stack' = Rest
            /\ ret' = Returns(inflight.payload)
            /\ comp' = [comp EXCEPT ![Top.own] = extractSessionData(@, inflight)]
            /\ log' = log]_vars

\* a payload that is also auth-classified was returned and the session kept
C9_Witness ==
    /\ ret.k = "ret"
    /\ ret.p.kind = "error"
    /\ ret.p.msg = AlreadyAuthMsg
    /\ comp["cached"].sessionId # NoStr

(***************************************************************************)
(* validateServerAndGetPlugins: frame.                                     *)
(***************************************************************************)
\* C10: while validateServerAndGetPlugins runs, and when it settles with a
\* result or an exception, the orchestrator's cached components (their
\* existence, URL, password, validating flag, session cookie, session id,
\* CSRF token, daemon info and hosts), its server index and its validating
\* flag do not change, and every HTTP call is issued by the temporary
\* Requester.
C10_ValidateLeavesCachedState ==
    /\ [][op'.name = "validate"
            => (orch' = orch /\ comp'["cached"] = comp["cached"])]_vars
    /\ []((op.name = "validate") => \A i \in DOMAIN log : log[i].own = "temp")

\* a validation that succeeded beside a live cached session
C10_Witness ==
    /\ op.name = "validate"
    /\ Resolved
    /\ ret.p.res.t = "pluginInfo"
    /\ Len(log) >= 3
    /\ comp["cached"].sessionId # NoStr
    /\ comp["cached"].daemonInfo # <<>>

(***************************************************************************)
(* connectToServer: notifications, target index, missing Connection.       *)
(***************************************************************************)
\* C11: a connectToServer call made with isValidating = true shows no error
\* notification, whichever step fails (no Connection at the index, login,
\* daemon connection, config fetch).
C11_ValidatingNeverNotifies ==
    (op.name = "connectToServer" /\ op.validating)
    => \A i \in DOMAIN notes : notes[i].kind # "error"

\* no connectToServer call has run on the orchestrator: it holds no
\* components and its fields are those of the constructor
FreshOrchestrator ==
    /\ ~comp["cached"].exists
    /\ orch = [currentServerIndex |-> 0, isValidating |-> FALSE]

\* the index a connectToServer call is given, or else the one held
IndexAsked == IF Top.n # Undefined THEN Top.n ELSE orch.currentServerIndex

\* C12: connectToServer targets the explicit serverIndex when one is given,
\* else the index kept by an earlier call, else (first call on a fresh
\* orchestrator, no index given) the stored primary index.
C12_FirstCallTargetsPrimary ==
    [][(stack # <<>> /\ Top.fn = "connectToServer" /\ Top.pc = "start"
          /\ ret.k = "none")
         => orch'.currentServerIndex =
               IF Top.n # Undefined THEN Top.n
               ELSE IF FreshOrchestrator THEN PrimaryServerIndex
               ELSE orch.currentServerIndex]_vars

\* C13: when no Connection exists at the resolved index, connectToServer
\* rejects with a ServerConfigError in its first step: no HTTP call has been
\* or is issued, and the components built by an earlier call stay as they
\* were.
C13_NoConnectionRejectsEarly ==
    /\ [][(stack # <<>> /\ Top.fn = "connectToServer" /\ Top.pc = "start"
             /\ ret.k = "none" /\ IndexAsked + 1 \notin DOMAIN Connections)
            => /\ stack' = Rest
               /\ ret'.k = "throw"
               /\ ret'.e[1].type = "ServerConfigError"
               /\ comp' = comp
               /\ log' = log
               /\ inflight' = inflight]_vars
    /\ []((op.name = "connectToServer" /\ Rejected
             /\ ret.e[1].type = "ServerConfigError") => log = <<>>)

\* a call for an index without Connection was rejected beside the live
\* session an earlier call had built
C13_Witness ==
    /\ op.name = "connectToServer" /\ op.idx = 2
    /\ RejectedWith("ServerConfigError")
    /\ log = <<>>
    /\ comp["cached"].exists
    /\ comp["cached"].sessionId # NoStr
    /\ comp["cached"].daemonInfo # <<>>

(***************************************************************************)
(* Plugin options after an add.                                            *)
(***************************************************************************)
AddFunctions == {"addMagnet", "addUrl", "addFile"}

\* positions of the stack that hold a frame of fn
FramesOf(fn) == {k \in DOMAIN stack : stack[k].fn = fn}

\* C14: on the magnet, URL and file paths label.set_torrent is issued only
\* after the add RPC returned a non-empty torrent hash, and with that hash:
\* processPluginOptions is entered only from an add function that has just
\* received a result with a non-empty hash, it is handed that hash, the
\* label.set_torrent call carries it, and every label.set_torrent call of an
\* operation follows an add RPC.
C14_LabelAfterAddWithHash ==
    /\ [][(stack # <<>> /\ Top.fn \in AddFunctions /\ Top.pc \in {"sent", "retry"}
             /\ ret.k # "none" /\ stack' # <<>>
             /\ stack'[Len(stack')].fn = "processPluginOptions")
            => /\ ret.k = "ret"
               /\ Truthy(ret.p.res)
               /\ stack'[Len(stack')].arg = ret.p.res.s[1]
               /\ stack'[Len(stack')].arg # ""]_vars
    /\ [](\A k \in FramesOf("processPluginOptions") :
            /\ k > 1
            /\ stack[k - 1].fn \in AddFunctions
            /\ stack[k - 1].pc = "plugins"
            /\ stack[k - 1].loc = <<stack[k].arg>>)
    /\ [](\A k \in FramesOf("request") :
            stack[k].m = LABEL_SET_TORRENT
            => \E j \in FramesOf("processPluginOptions") :
                  j < k /\ stack[k].arg = stack[j].arg)
    /\ [](\A i \in DOMAIN log :
            log[i].m = LABEL_SET_TORRENT
            => /\ log[i].arg # ""
               /\ \E j \in 1..(i - 1) : log[j].m \in AddMethods)

\* a file was added and then labelled with the hash the add returned
C14_Witness ==
    /\ op.name = "addTorrentFile"
    /\ Resolved
    /\ Len(log) = 2
    /\ log[1].m = CORE_ADD_TORRENT_FILE
    /\ log[2].m = LABEL_SET_TORRENT
    /\ log[2].arg = TorrentHash

\* C15: once the add RPC has succeeded, a failure of label.set_torrent
\* (server error, network error, authentication error) does not fail the
\* add: processPluginOptions settles without exception whatever the label
\* call did, the add function then returns the hash it had received, and
\* the orchestrator's operation resolves with the success notification.
C15_LabelFailureSwallowed ==
    /\ [][(stack # <<>> /\ Top.fn = "processPluginOptions" /\ ret.k # "none")
            => (stack' = Rest /\ ret'.k = "ret")]_vars
    /\ [][(stack # <<>> /\ Top.fn \in AddFunctions /\ Top.pc = "plugins"
             /\ ret.k # "none")
            => (stack' = Rest /\ ret' = ReturnsVal(VStr(Top.loc[1])))]_vars
    /\ []((op.name \in {"addTorrent", "addTorrentFile"} /\ Done
             /\ Sends(LABEL_SET_TORRENT) > 0)
            => (ret.k = "ret"
                  /\ notes = <<Note("success", "Torrent added to Deluge")>>))

\* label.set_torrent met an expired session, the login that followed was
\* the last call of the operation (the label call was not sent again), and
\* the add resolved
C15_Witness ==
    /\ op.name = "addTorrentFile"
    /\ Resolved
    /\ notes = <<Note("success", "Torrent added to Deluge")>>
    /\ Sends(LABEL_SET_TORRENT) = 1
    /\ Len(log) > 2
    /\ log[Len(log)].m = AUTH_LOGIN
    /\ \E i \in 1..(Len(log) - 1) :
          log[i].m = LABEL_SET_TORRENT /\ log[i + 1].m \in AuthMethods

(***************************************************************************)
(* addUrl and addMagnet: retry and fallback.                               *)
(***************************************************************************)
\* what request() hands its caller says msg: an exception with that
\* message, or a returned error payload with it
AnsweredWith(msg) ==
    \/ ret.k = "throw" /\ Includes(ret.e[1].msg, msg)
    \/ ret.k = "ret" /\ ret.p.kind = "error" /\ Includes(ret.p.msg, msg)

\* C16: when the server rejects core.add_torrent_url with the arity error
\* 'takes exactly 3 arguments', addUrl sends core.add_torrent_url once more
\* (with an empty headers object) and goes on with the answer to that retry.
C16_ArityErrorRetried ==
    [][(stack # <<>> /\ Top.fn = "addUrl" /\ Top.pc = "sent"
          /\ AnsweredWith("takes exactly 3 arguments"))
         => /\ Len(stack') = Len(stack) + 1
            /\ stack'[Len(stack)].pc = "retry"
            /\ stack'[Len(stack')].fn = "request"
            /\ stack'[Len(stack')].m = CORE_ADD_TORRENT_URL]_vars

C18_DeleteSessionNeverThrows ==
    (op.name = "deleteSession" /\ Done) => ret.k = "ret"

(***************************************************************************)
(* Request ids.                                                            *)
(***************************************************************************)
\* C19: any two requests of an operation carry different ids: an original
\* call and its retries, and calls issued back to back.
C19_DistinctIds ==
    \A i, j \in DOMAIN log : i # j => log[i].id # log[j].id

(***************************************************************************)
(* PluginInfo.labels.                                                      *)
(***************************************************************************)
\* the labels of a PluginInfo value
LabelsOf(info) == SubSeq(info.s, 3, Len(info.s))

\* C20: the labels of the PluginInfo that getPluginInfo returns are the list
\* the label source returned, in its order, and no label occurs twice in
\* them, whatever list the server returns.
C20_LabelsDistinctInOrder ==
    /\ []((ret.k = "ret" /\ ret.p.res.t = "pluginInfo")
            => \A i, j \in DOMAIN LabelsOf(ret.p.res) :
                  i # j => LabelsOf(ret.p.res)[i] # LabelsOf(ret.p.res)[j])
    /\ [][(stack # <<>> /\ Top.fn = "getPluginInfo" /\ Top.pc = "labels"
             /\ ret.k = "ret")
            => LabelsOf(ret'.p.res) = ret.p.res.s]_vars

(***************************************************************************)
(* buildTorrentOptions.                                                    *)
(***************************************************************************)
\* keys and values of an object written as <<key, value, ...>>
KeysOf(kv) == {kv[i] : i \in {j \in DOMAIN kv : j % 2 = 1}}
ValuesOf(kv) == {kv[i] : i \in {j \in DOMAIN kv : j % 2 = 0}}
ValueOf(kv, k) == kv[(CHOOSE i \in DOMAIN kv : i % 2 = 1 /\ kv[i] = k) + 1]

\* C21: the object buildTorrentOptions returns holds only recognized keys
\* whose field is present in the input, holds add_paused, move_completed and
\* prioritize_first_last_pieces as booleans, and holds no null or undefined
\* value, for every input, null-valued fields included.
C21_OptionsClean ==
    (op.name = "buildTorrentOptions" /\ Done)
    => LET out == ret.p.res.s IN
       /\ KeysOf(out) \subseteq
             (IF ~op.m.given THEN {}
              ELSE {k \in OptionKeys : op.m.f[k] # "undefined"})
       /\ \A k \in KeysOf(out) \cap BooleanKeys : ValueOf(out, k) \in {"true", "false"}
       /\ ValuesOf(out) \cap {"null", "undefined"} = {}

(***************************************************************************)
(* getServerConfig and the 403 answers.                                    *)
(***************************************************************************)
\* C22: when core.get_config fails with a 403, as an HTTP 403 response or
\* as the payload-level marker, getServerConfig rejects with the message
\* that remote connections are not enabled: against a server that answers
\* every core.get_config with a 403 the call settles only that way, and it
\* settles after the one session check and re-send that a 403 allows, so
\* core.get_config is sent at most twice.
C22_ForbiddenConfigTranslated ==
    (op.name = "getServerConfig" /\ srv = "denied")
    => /\ Sends(CORE_GET_CONFIG) <= 2
       /\ Done => /\ RejectedWith("ConnectionError")
                  /\ ret.e[1].msg =
                        <<"Remote connections are not enabled on your Deluge server">>

\* C23: an HTTP 403 answer to a method that is not a torrent method starts
\* exactly one session check and nothing else; when the check has come back
\* the original request is sent again in place of the first one, so that
\* the outcome of the re-sent request is the outcome of request().  In the
\* log of a getServerConfig call that meets 403 answers, every
\* core.get_config that is followed by a call is followed by one
\* auth.check_session, and that by the re-sent core.get_config.
C23_OneSessionCheckPer403 ==
    /\ [][(Running("request", "fetch") /\ inflight.net = "ok"
             /\ inflight.status = 403 /\ ~MethodIncludesTorrent(Top.m))
            => /\ Len(stack') = Len(stack) + 1
               /\ stack'[Len(stack)] = [Top EXCEPT !.pc = "checked"]
               /\ stack'[Len(stack')].fn = "checkSession"
               /\ stack'[Len(stack')].pc = "start"
               /\ log' = log]_vars
    /\ [][(stack # <<>> /\ Top.fn = "request" /\ Top.pc = "checked" /\ ret.k = "ret")
            => /\ Len(stack') = Len(stack)
               /\ SubSeq(stack', 1, Len(stack) - 1) = Rest
               /\ stack'[Len(stack)].fn = "request"
               /\ stack'[Len(stack)].pc = "start"
               /\ stack'[Len(stack)].m = Top.m
               /\ stack'[Len(stack)].arg = Top.arg
               /\ stack'[Len(stack)].silent = Top.silent
               /\ log' = log]_vars
    /\ []((op.name = "getServerConfig" /\ srv = "denied")
            => \A i \in 1..(Len(log) - 1) :
                  log[i + 1].m = IF log[i].m = CORE_GET_CONFIG
                                 THEN AUTH_CHECK_SESSION ELSE CORE_GET_CONFIG)

\* core.get_config met one HTTP 403, the session was checked once, the call
\* was sent again and its outcome settled getServerConfig
C23_Witness ==
    /\ op.name = "getServerConfig" /\ srv = "denied"
    /\ Done
    /\ Len(log) = 3
    /\ log[1].m = CORE_GET_CONFIG
    /\ log[2].m = AUTH_CHECK_SESSION
    /\ log[3].m = CORE_GET_CONFIG

\* C24: a login call that has a password and runs in validating mode clears
\* the session and sends auth.login with no session check before it; in
\* normal mode it starts with a session check and, when the check gives
\* true, returns true at once: no auth.login, the session left as it is.
\* connectToServer and validateServerAndGetPlugins start with a login, so
\* the first call they send is auth.login in validating mode and
\* auth.check_session in normal mode.
LoginCalled == AtCall("login") /\ comp[Top.own].pass # ""

C24_LoginModes ==
    /\ [][(LoginCalled /\ comp[Top.own].isValidating)
            => /\ comp'[Top.own] = clearSession(comp[Top.own])
               /\ Len(stack') = Len(stack) + 1
               /\ stack'[Len(stack')].fn = "request"
               /\ stack'[Len(stack')].pc = "start"
               /\ stack'[Len(stack')].m = AUTH_LOGIN
               /\ log' = log]_vars
    /\ [][(LoginCalled /\ ~comp[Top.own].isValidating)
            => /\ comp' = comp
               /\ Len(stack') = Len(stack) + 1
               /\ stack'[Len(stack')].fn = "checkSession"
               /\ stack'[Len(stack')].pc = "start"]_vars
    /\ [][(AtResume("login", "checked") /\ ret.k = "ret" /\ ret.p.res = VTrue)
            => /\ stack' = Rest
               /\ ret' = ReturnsVal(VTrue)
               /\ comp' = comp
               /\ log' = log]_vars
    /\ []((op.name \in {"connectToServer", "validate"} /\ log # <<>>)
            => log[1].m = IF op.name = "validate" \/ op.validating
                          THEN AUTH_LOGIN ELSE AUTH_CHECK_SESSION)

\* a normal-mode connectToServer whose login found a valid session: the
\* session check is the only authentication call sent, the session it
\* stored is kept, and the call has gone on to the daemon
C24_Witness ==
    /\ op.name = "connectToServer" /\ ~op.validating
    /\ Len(stack) = 1
    /\ Running("connectToServer", "daemon")
    /\ log[1].m = AUTH_CHECK_SESSION
    /\ Sends(AUTH_LOGIN) = 0
    /\ comp["cached"].sessionId # NoStr

(***************************************************************************)
(* attemptDaemonConnection: the calls made for a host.                     *)
(***************************************************************************)
\* the calls on the wire with method m for host h
SentFor(m, h) == {j \in DOMAIN log : log[j].m = m /\ log[j].arg = h}

\* the frame right under frame i of the stack
Caller(i) == stack[i - 1]

\* C25 as stated: for a host reported Online exactly one web.connect is
\* issued.  The count is taken on the wire while the attempt awaits its
\* connect call and when that call has come back.
C25_OneConnectPerOnlineHost ==
    \A i \in DOMAIN stack :
        (/\ stack[i].fn = "attemptDaemonConnection"
         /\ stack[i].pc = "connect"
         /\ stack[i].loc[2] = "Online")
        => Cardinality(SentFor(WEB_CONNECT, stack[i].arg)) <= 1

\* C25, amended: what attemptDaemonConnection calls for a host depends on the
\* reported status alone.  Connected: the attempt resolves with no further
\* call.  Online: one call of connect.  Offline: one call of startDaemon and,
\* only when that has succeeded, one call of connect; a failed startDaemon
\* ends the attempt with its error.  startDaemon and connect are called
\* from nowhere else, and web.start_daemon and web.connect are sent by them
\* alone, one request() call each (which request() may send again after a
\* re-login or a session check).
C25_CallsByStatus ==
    /\ [][(AtResume("attemptDaemonConnection", "status") /\ ret.k = "ret")
            => LET status == ret.p.res.s[2] IN
               /\ log' = log
               /\ status = "Connected" => stack' = Rest /\ ret'.k = "ret"
               /\ status \in {"Online", "Offline"}
                    => /\ Len(stack') = Len(stack) + 1
                       /\ stack'[Len(stack)].pc =
                             IF status = "Online" THEN "connect" ELSE "started"
                       /\ stack'[Len(stack')].fn =
                             IF status = "Online" THEN "connect" ELSE "startDaemon"
                       /\ stack'[Len(stack')].pc = "start"
                       /\ stack'[Len(stack')].arg = Top.arg]_vars
    /\ [][AtResume("attemptDaemonConnection", "started")
            => /\ log' = log
               /\ IF ret.k = "throw"
                  THEN stack' = Rest /\ ret' = ret
                  ELSE /\ Len(stack') = Len(stack) + 1
                       /\ stack'[Len(stack)].pc = "connect"
                       /\ stack'[Len(stack')].fn = "connect"
                       /\ stack'[Len(stack')].pc = "start"
                       /\ stack'[Len(stack')].arg = Top.arg]_vars
    /\ [][AtResume("attemptDaemonConnection", "connect")
            => stack' = Rest /\ log' = log]_vars
    /\ [][(stack # <<>> /\ Top.fn \in {"connect", "startDaemon"} /\ Top.pc = "wait")
            => stack' = Rest /\ log' = log]_vars
    /\ [](\A i \in DOMAIN stack :
            /\ stack[i].fn = "startDaemon"
                 => /\ i > 1
                    /\ Caller(i).fn = "attemptDaemonConnection"
                    /\ Caller(i).pc = "started"
                    /\ Caller(i).loc[2] = "Offline"
            /\ stack[i].fn = "connect"
                 => /\ i > 1
                    /\ Caller(i).fn = "attemptDaemonConnection"
                    /\ Caller(i).pc = "connect"
                    /\ Caller(i).loc[2] \in {"Online", "Offline"}
                    /\ Caller(i).loc[2] = "Offline"
                         => SentFor(WEB_START_DAEMON, stack[i].arg) # {}
            /\ (stack[i].fn = "request"
                  /\ stack[i].m \in {WEB_START_DAEMON, WEB_CONNECT})
                 => /\ i > 1
                    /\ Caller(i).pc = "wait"
                    /\ Caller(i).fn = IF stack[i].m = WEB_CONNECT
                                      THEN "connect" ELSE "startDaemon")

\* the attempt for a host reported Offline has started the daemon and then
\* connected to it
C25_Witness ==
    /\ AtResume("attemptDaemonConnection", "connect")
    /\ ret.k = "ret"
    /\ Top.loc[2] = "Offline"
    /\ \E i, j \in DOMAIN log :
          /\ i < j
          /\ log[i].m = WEB_START_DAEMON /\ log[i].arg = Top.arg
          /\ log[j].m = WEB_CONNECT /\ log[j].arg = Top.arg

(***************************************************************************)
(* connectToDaemon: one host at a time, in list order.                     *)
(***************************************************************************)
HostMethods == {WEB_GET_HOST_STATUS, WEB_START_DAEMON, WEB_CONNECT}

\* the calls on the wire that are made for a host
HostCalls == {j \in DOMAIN log : log[j].m \in HostMethods}

\* the place of host h in the list hosts
PlaceIn(hosts, h) == CHOOSE k \in DOMAIN hosts : hosts[k] = h

\* C26: connectToDaemon takes the hosts of the web.get_hosts list one at a
\* time and in order.  While the attempt for host n is under way every host
\* call sent so far is for one of the hosts 1..n, and the host calls in the
\* log are ordered by the place of their host in the list.  A successful
\* attempt ends connectToDaemon in the same step: its host is stored as the
\* DaemonInfo and returned, and no call for a later host is ever sent.
C26_HostsInOrder ==
    /\ [](\A i \in DOMAIN stack :
            (stack[i].fn = "connectToDaemon" /\ stack[i].pc = "attempt")
            => LET hosts == stack[i].loc IN
               /\ \A j \in HostCalls :
                     /\ \E k \in 1..stack[i].n : hosts[k] = log[j].arg
               /\ \A j, k \in HostCalls :
                     j < k => PlaceIn(hosts, log[j].arg) <= PlaceIn(hosts, log[k].arg)
               /\ i < Len(stack)
                    => /\ stack[i + 1].fn = "attemptDaemonConnection"
                       /\ stack[i + 1].arg = hosts[stack[i].n])
    /\ [][(AtResume("connectToDaemon", "attempt") /\ ret.k = "ret")
            => /\ stack' = Rest
               /\ ret' = ret
               /\ ret.p.res.s[1] = Top.loc[Top.n]
               /\ comp'[Top.own].daemonInfo = <<Top.loc[Top.n]>>
               /\ log' = log]_vars
    /\ []((op.name \in {"connectToServer", "validate"})
            => \A own \in DOMAIN comp : \A hosts \in HostLists :
                  (comp[own].daemonInfo # <<>> /\ hosts # <<>>)
                  => \A j \in HostCalls :
                        log[j].own = own
                        => PlaceIn(hosts, log[j].arg)
                              <= PlaceIn(hosts, comp[own].daemonInfo[1]))

\* connectToServer has resolved with the first of two hosts, reached
\* through web.connect; nothing was sent for the second host
C26_Witness ==
    /\ op.name = "connectToServer"
    /\ Resolved
    /\ comp["cached"].daemonInfo = <<"h1">>
    /\ SentFor(WEB_CONNECT, "h1") # {}
    /\ \A j \in DOMAIN log : log[j].arg # "h2"
    /\ \E j \in DOMAIN log : log[j].m = WEB_GET_HOSTS

(***************************************************************************)
(* A host whose status is none of Connected, Online, Offline.              *)
(***************************************************************************)
KnownStatuses == {"Connected", "Online", "Offline"}

\* the error, or one of its causes, names the status
RECURSIVE NamesStatus(_, _)
NamesStatus(e, status) ==
    \/ e.msg = <<"Unknown daemon status:", status>>
    \/ e.cause # <<>> /\ NamesStatus(e.cause[1], status)

\* the failures connectToDaemon has caught when an attempt has just failed:
\* the one of this attempt and the one kept from the attempt before
Caught == ret.e \o Top.err

\* C27: a host that reports a status other than Connected, Online, Offline
\* fails: its attempt ends at once, with nothing sent, in an error that names
\* the status; and when connectToDaemon then fails because no host could be
\* connected, the error it throws names that status, in its message or in
\* the chain of its causes.
C27_UnknownStatusSurfaced ==
    /\ [][(AtResume("attemptDaemonConnection", "status") /\ ret.k = "ret"
             /\ ret.p.res.s[2] \notin KnownStatuses)
            => /\ stack' = Rest
               /\ log' = log
               /\ ret'.k = "throw"
               /\ ret'.e[1].msg = <<"Unknown daemon status:", ret.p.res.s[2]>>]_vars
    /\ [][(AtResume("connectToDaemon", "attempt") /\ ret.k = "throw"
             /\ stack' = Rest)
            => \A status \in Statuses \ KnownStatuses :
                  (\E k \in DOMAIN Caught : NamesStatus(Caught[k], status))
                  => NamesStatus(ret'.e[1], status)]_vars

(***************************************************************************)
(* Session data of responses, headers of requests.                         *)
(***************************************************************************)
\* the value of header k, NoStr when the header is not set
HeaderOf(headers, k) == IF k \in KeysOf(headers) THEN ValueOf(headers, k) ELSE NoStr

\* the step handles a response by clearing the session and logging in again
Relogin == Len(stack') = Len(stack) + 1 /\ stack'[Len(stack')].fn = "login"

\* C28: the step that handles an HTTP response, whatever its status, writes
\* the Set-Cookie and X-CSRF-Token values of the response to the session
\* store (a re-login after an auth-classified error then clears the store);
\* nothing is sent in that step, so the session check after a 403, the
\* retry and the throw come after the store is written.  Every request
\* takes its headers from the store as it is when the request is sent.
C28_StoredBeforeStatus ==
    /\ [][(Running("request", "fetch") /\ inflight.net = "ok" /\ ~Relogin)
            => LET old == comp[Top.own]
                   new == comp'[Top.own]
               IN /\ log' = log
                  /\ new.sessionCookie = IF inflight.cookie # NoStr
                                         THEN inflight.cookie ELSE old.sessionCookie
                  /\ new.sessionId = IF SessionIdOf(inflight.cookie) # NoStr
                                     THEN SessionIdOf(inflight.cookie) ELSE old.sessionId
                  /\ new.csrfToken = IF inflight.csrf # NoStr
                                     THEN inflight.csrf ELSE old.csrfToken]_vars
    /\ [](\A i \in DOMAIN stack :
            (stack[i].fn = "request" /\ stack[i].pc = "fetch")
            => HeaderOf(stack[i].loc, "X-Deluge-Token") = comp[stack[i].own].csrfToken)

\* a call sent without a CSRF token was answered by HTTP 403 with a token,
\* and the auth.check_session call that follows carries that token
C28_Witness ==
    /\ Len(stack) >= 3
    /\ Running("request", "fetch")
    /\ Top.m = AUTH_CHECK_SESSION
    /\ HeaderOf(Top.loc, "X-Deluge-Token") = "t1"
    /\ stack[Len(stack) - 2].fn = "request"
    /\ stack[Len(stack) - 2].pc = "checked"
    /\ HeaderOf(stack[Len(stack) - 2].loc, "X-Deluge-Token") = NoStr

\* the cookie the client makes up from a session id
SynthCookie(id) == IF id = "s1" THEN "_session_id=s1" ELSE NoStr

\* C29: a request sent while a session cookie or a session id is stored has
\* a Cookie header, the stored cookie string or else _session_id=<id>, and a
\* request sent while a CSRF token is stored has it in X-CSRF-Token.
C29_SessionHeadersSent ==
    Running("request", "fetch")
    => LET c == comp[Top.own] IN
       /\ (c.sessionCookie # NoStr \/ c.sessionId # NoStr)
            => HeaderOf(Top.loc, "Cookie") =
                  IF c.sessionCookie # NoStr THEN c.sessionCookie
                  ELSE SynthCookie(c.sessionId)
       /\ c.csrfToken # NoStr => HeaderOf(Top.loc, "X-CSRF-Token") = c.csrfToken

(***************************************************************************)
(* The retry budget of interleaved calls.                                  *)
(***************************************************************************)
\* the request() calls of the two chains
ChainFrames == {i \in DOMAIN stack :
                  stack[i].fn = "request" /\ stack[i].m \notin AuthMethods}

MultipleRetries == <<"Authentication failed after multiple retries">>

\* C30: when two request() calls of one Requester run interleaved, the
\* retry counter of each call is the number of re-login retries that call
\* itself has made, whatever the other call has done: a call that has sent
\* its method k times holds the counter k - 1 (k before it sends again).  A
\* call rejects with 'Authentication failed after multiple retries' only
\* when it has itself sent its method maxRetries + 1 times, and no call
\* sends its method more often than that.
C30_RetryBudgetPerCall ==
    op.name = "requestPair"
    => /\ \A i \in ChainFrames :
             stack[i].n = Sends(stack[i].m) - (IF stack[i].pc = "start" THEN 0 ELSE 1)
       /\ \A k \in DOMAIN PairMethods : Sends(PairMethods[k]) <= maxRetries + 1
       /\ (stack # <<>> /\ Top.fn = "pair" /\ ret.k = "throw"
             /\ ret.e[1].msg = MultipleRetries)
            => Sends(Top.arg) = maxRetries + 1

\* the two calls have sent their methods in turn, each has used its two
\* retries, and both have been rejected after their third send
C30_Witness ==
    /\ op.name = "requestPair"
    /\ Len(stack) = 1
    /\ Top.fn = "pair"
    /\ ret.k = "throw" /\ ret.e[1].msg = MultipleRetries
    /\ Top.err # <<>> /\ Top.err[1].msg = MultipleRetries
    /\ \A k \in DOMAIN PairMethods : Sends(PairMethods[k]) = maxRetries + 1
    /\ \E i, j, k \in DOMAIN log :
          /\ i < j /\ j < k
          /\ log[i].m = log[k].m
          /\ log[i].m \notin AuthMethods
          /\ log[j].m \notin AuthMethods
          /\ log[j].m # log[i].m

C32_ForbiddenUrlAnnotated ==
    [][(stack # <<>> /\ Top.fn = "addUrl" /\ Top.pc = "sent"
          /\ AnsweredWith("403 Forbidden"))
         => /\ stack' = Rest
            /\ ret'.k = "throw"
            /\ ret'.e[1].type = "TorrentError"
            /\ ret'.e[1].code = "403"]_vars

(***************************************************************************)
(* getPluginInfo: labels are fetched for label-capable servers only.       *)
(***************************************************************************)
\* the plugin list names a Label or a LabelPlus plugin
LabelCapable(plugins) ==
    \E i \in DOMAIN plugins : plugins[i] \in {"Label", "label", "LabelPlus", "labelplus"}

\* the two flags of a PluginInfo
FlagsOf(info) == {info[1], info[2]}

\* C33: when the plugin list names neither a Label nor a LabelPlus plugin,
\* getPluginInfo returns in that step, with both flags false and no labels,
\* and nothing is sent.  In an operation that fetches the plugin summary a
\* label RPC is in the log only when getPluginInfo has found a
\* label-capable plugin: it awaits getLabels with one of the flags set, or
\* it has returned a summary with one of the flags set.
C33_LabelsOnlyWhenCapable ==
    /\ [][(AtResume("getPluginInfo", "plugins") /\ ret.k = "ret"
             /\ ~LabelCapable(ret.p.res.s))
            => /\ stack' = Rest
               /\ ret' = ReturnsVal(PluginInfo(FALSE, FALSE, <<>>))
               /\ log' = log]_vars
    /\ []((op.name \in {"getPluginInfo", "validate"} /\ LabelCalls # {})
            => \/ \E i \in DOMAIN stack :
                     /\ stack[i].fn = "getPluginInfo"
                     /\ stack[i].pc = "labels"
                     /\ "TRUE" \in FlagsOf(stack[i].loc)
               \/ /\ ret.k = "ret"
                  /\ ret.p.res.t = "pluginInfo"
                  /\ "TRUE" \in FlagsOf(ret.p.res.s))

\* getPluginInfo has resolved for a server without label plugin: the plugin
\* list was fetched, no label RPC was sent, the labels are empty
C33_Witness ==
    /\ op.name = "getPluginInfo"
    /\ Resolved
    /\ ret.p.res = PluginInfo(FALSE, FALSE, <<>>)
    /\ Sends(WEB_GET_PLUGINS) = 1
    /\ LabelCalls = {}

(***************************************************************************)
(* The server an interleaved addTorrent call talks to.                     *)
(***************************************************************************)
\* the addTorrent call that runs: the frame right above the pair frame
RunningCall == stack[PairAt + 1]

\* C34: every RPC that an addTorrent call with server index i sends goes to
\* the URL of Connection i, also when another addTorrent call with an index
\* of its own runs interleaved on the same DelugeConnection.
C34_TargetsRequestedServer ==
    (op.name = "addTorrentPair" /\ Running("request", "fetch"))
    => log[Len(log)].url = buildRequestUrl(ConnectionAt(RunningCall.n).url)

(***************************************************************************)
(* The orchestrator after a connectToServer call that failed.              *)
(***************************************************************************)
\* the last connectToServer call built its components and then failed at the
\* login or the daemon step: no daemon was ever selected on them
ConnectFailedBefore ==
    /\ comp["cached"].exists
    /\ comp["cached"].daemonInfo = <<>>

\* C35: after a connectToServer call that failed at the login or the daemon
\* step, an addTorrent or addTorrentFile call without serverIndex is rejected
\* in its first step with the ServerConfigError 'Not connected to server',
\* and nothing is sent.
C35_FailedConnectLeavesNothingUsable ==
    [][((AtCall("addTorrent") \/ AtCall("addTorrentFile"))
          /\ Top.n = Undefined /\ ConnectFailedBefore)
         => /\ stack' = Rest
            /\ ret'.k = "throw"
            /\ ret'.e[1].type = "ServerConfigError"
            /\ log' = log]_vars

\* C36: a connectToServer call that is rejected because no Connection is
\* configured at the index it resolves leaves the orchestrator's server index
\* as it was.
C36_MissingConnectionKeepsIndex ==
    [][(AtCall("connectToServer") /\ ~HasConnection(IndexAsked))
         => orch'.currentServerIndex = orch.currentServerIndex]_vars

(***************************************************************************)
(* fetchWithRetry: the number of attempts.                                 *)
(***************************************************************************)
\* the response in flight is a failure: a rejected fetch or a status that
\* is not ok
FetchFailed == inflight.net # "ok" \/ inflight.status \notin 200..299

\* C37: fetchWithRetry called with r retries makes at most r + 1 fetch
\* attempts whatever the host answers; when the attempt made with no retry
\* left fails, HTTP 429 included, the call rejects in that step and makes no
\* further attempt.
C37_AttemptsBounded ==
    /\ [](op.name = "fetchWithRetry" => Len(log) <= op.idx + 1)
    /\ [][(Running("fetchWithRetry", "fetch") /\ inflight # NoResponse
             /\ Top.n = 0 /\ FetchFailed)
            => /\ stack' = <<>>
               /\ ret'.k = "throw"
               /\ log' = log
               /\ Len(log) = op.idx + 1]_vars

\* a host that answered HTTP 429 to the last of r + 1 attempts, r >= 2: the
\* call has rejected with that status
C37_Witness ==
    /\ op.name = "fetchWithRetry"
    /\ op.idx >= 2
    /\ Rejected
    /\ ret.e[1].msg = <<"HTTP", "429">>
    /\ Len(log) = op.idx + 1

(***************************************************************************)
(* The session store: session id and session cookie.                       *)
(***************************************************************************)
\* C38: a session id that is stored is the _session_id value of the session
\* cookie that is stored.
C38_SessionIdOfStoredCookie ==
    \A o \in Owners :
        comp[o].sessionId # NoStr
        => /\ comp[o].sessionCookie # NoStr
           /\ SessionIdOf(comp[o].sessionCookie) = comp[o].sessionId

(***************************************************************************)
(* PopupController: the refresh intervals.                                 *)
(***************************************************************************)
\* C39: at most one refresh interval runs in the popup window, and none is
\* left running when cleanup has run.
C39_OneRefreshInterval ==
    /\ op.name = "popup" => Cardinality(srv) <= 1
    /\ op.name = "unloaded" => srv = {}

(***************************************************************************)
(* SafeMessenger: the size of the queue.                                   *)
(***************************************************************************)
\* C40: the message queue of the SafeMessenger never holds more than
\* MAX_MESSAGE_QUEUE_SIZE entries.
C40_QueueBounded ==
    op.name = "messenger" => Len(orch.messageQueue) <= MAX_MESSAGE_QUEUE_SIZE

\* the queue is full while a reconnection is under way
C40_Witness ==
    /\ op.name = "messenger"
    /\ Len(orch.messageQueue) = MAX_MESSAGE_QUEUE_SIZE
    /\ orch.isReconnecting
    /\ ~srv.Connected

====
